---- MODULE Spec2Model ----
(***************************************************************************)
(* A model of the blackstart workflow engine: the value model (Input),     *)
(* the module registry and module context, Operation.setup/execute, the    *)
(* dependency graph with its depth-first topological sort, the             *)
(* type-compatibility pass and the phases of workflowExecution.execute.    *)
(*                                                                         *)
(* Conventions.                                                            *)
(*  - A Go value of type `any` is a record [t |-> type name, v |-> text]:  *)
(*    BoolV(TRUE) is the Go value true, StrV("foo") the string "foo" and   *)
(*    NilV the untyped nil.                                                *)
(*  - A Go error is a sequence of strings (the parts of its message, the   *)
(*    wrapped errors last); the nil error is the empty sequence.           *)
(*  - A Go map is a function whose DOMAIN is the set of keys present.      *)
(*  - A *Operation is the operation's Id; NoOp is the nil pointer.         *)
(*  - Loop variables are per-iteration copies (range semantics of Go 1.22  *)
(*    and later, which the package needs anyway for the slices package     *)
(*    and its lint toolchain).                                             *)
(***************************************************************************)
EXTENDS Integers, Sequences, FiniteSets

\* Number of operations of the workflows explored.
NumOps == 3

\* Number of Output calls explored on one module context.
MaxOutputCalls == 4

\* Number of RegisterModule calls explored after initialization.
MaxRegisterCalls == 3

nil == <<>>

NoOp == "<nil>"

ErrOperationCycle == "operation cycle detected"

ErrInputDoesNotExist == "input does not exist"

phaseSetup == "Setup"

phaseValidate == "Validate"

phaseExecute == "Execute"

-----------------------------------------------------------------------------
(* Go values and maps *)

NilV == [t |-> "nil", v |-> ""]

BoolV(b) == [t |-> "bool", v |-> IF b THEN "true" ELSE "false"]

StrV(s) == [t |-> "string", v |-> s]

\* Numbers are kept as their decimal text; an int, an int64, a uint64, a
\* float64, and ObjV(s), a value of any other type (a struct or a pointer).
IntV(n) == [t |-> "int", v |-> n]

Int64V(n) == [t |-> "int64", v |-> n]

Uint64V(n) == [t |-> "uint64", v |-> n]

FloatV(x) == [t |-> "float64", v |-> x]

ObjV(s) == [t |-> "object", v |-> s]

EmptyMap == [k \in {} |-> NilV]

MapPut(m, k, x) == [j \in (DOMAIN m) \cup {k} |-> IF j = k THEN x ELSE m[j]]

-----------------------------------------------------------------------------
(* The value model: moduleInput *)

undefinedInput == "undefinedInput"

stringInput == "stringInput"

boolInput == "boolInput"

numberInput == "numberInput"

unsignedNumberInput == "unsignedNumberInput"

floatInput == "floatInput"

anyInput == "anyInput"

\* The zero value of moduleInput.
moduleInput ==
    [defaultType |-> undefinedInput, stringValue |-> "", boolValue |-> FALSE,
     numberValue |-> "0", unsignedNumberValue |-> "0", floatValue |-> "0",
     anyValue |-> NilV, hasDep |-> FALSE, OperationId |-> "", Output |-> ""]

\* NewInputFromValue: detect the type of a static value and store it in the
\* field of its kind; int64(v) of an int keeps the number.
NewInputFromValue(value) ==
    CASE value.t = "string" ->
           [moduleInput EXCEPT !.stringValue = value.v, !.anyValue = value,
                               !.defaultType = stringInput]
      [] value.t = "bool" ->
           [moduleInput EXCEPT !.boolValue = (value.v = "true"), !.anyValue = value,
                               !.defaultType = boolInput]
      [] value.t \in {"int", "int64"} ->
           [moduleInput EXCEPT !.numberValue = value.v, !.anyValue = value,
                               !.defaultType = numberInput]
      [] value.t = "uint64" ->
           [moduleInput EXCEPT !.unsignedNumberValue = value.v, !.anyValue = value,
                               !.defaultType = unsignedNumberInput]
      [] value.t = "float64" ->
           [moduleInput EXCEPT !.floatValue = value.v, !.anyValue = value,
                               !.defaultType = floatInput]
      [] OTHER ->
           [moduleInput EXCEPT !.anyValue = value, !.defaultType = anyInput]

\* NewInputFromDep: a reference to the output of another operation.
NewInputFromDep(id, output) ==
    [moduleInput EXCEPT !.hasDep = TRUE, !.OperationId = id, !.Output = output]

IsStatic(m) == ~m.hasDep

String(m) == m.stringValue

Bool(m) == m.boolValue

Number(m) == [t |-> "int64", v |-> m.numberValue]

Float(m) == [t |-> "float64", v |-> m.floatValue]

Any(m) == m.anyValue

DependencyId(m) == IF m.hasDep THEN m.OperationId ELSE ""

OutputKey(m) == IF m.hasDep THEN m.Output ELSE ""

\* Auto: the value in its detected kind, or the cannot-determine-type error.
Auto(m) ==
    CASE m.defaultType = stringInput -> [val |-> StrV(String(m)), err |-> nil]
      [] m.defaultType = boolInput -> [val |-> BoolV(Bool(m)), err |-> nil]
      [] m.defaultType = numberInput -> [val |-> Number(m), err |-> nil]
      [] m.defaultType = unsignedNumberInput -> [val |-> Number(m), err |-> nil]
      [] m.defaultType = floatInput -> [val |-> Float(m), err |-> nil]
      [] m.defaultType = anyInput -> [val |-> Any(m), err |-> nil]
      [] OTHER -> [val |-> NilV, err |-> <<"unable to determine type">>]

-----------------------------------------------------------------------------
(* reflect.Type, as far as the type checks read it *)

\* reflect.Type.Kind for the types of the model: T, *T, the map types (Labels
\* is a defined type, type Labels map[string]interface {}) and the interfaces.
Kind(t) ==
    CASE t \in {"*bool", "*string", "*Labels", "*kubernetes.Clientset"} -> "ptr"
      [] t \in {"interface {}", "kubernetes.Interface"} -> "interface"
      [] t \in {"Labels", "map[string]interface {}"} -> "map"
      [] OTHER -> t

\* reflect.Type.Elem of a pointer type.
Elem(t) ==
    CASE t = "*bool" -> "bool"
      [] t = "*string" -> "string"
      [] t = "*Labels" -> "Labels"
      [] OTHER -> t

\* reflect.Type.Implements: every type implements the empty interface, the
\* client set implements kubernetes.Interface.
Implements(vt, t) ==
    IF t = "kubernetes.Interface" THEN vt = "*kubernetes.Clientset"
    ELSE t = "interface {}"

\* The type is a defined (named) type; type literals are not.
Named(t) == t \notin {"*bool", "*string", "*Labels", "*kubernetes.Clientset",
                      "map[string]interface {}", "interface {}"}

\* The underlying type.
Underlying(t) == IF t = "Labels" THEN "map[string]interface {}" ELSE t

\* reflect.Type.AssignableTo: identical types, a type implementing the
\* interface, or identical underlying types of which one is not defined.
AssignableTo(vt, t) ==
    IF vt = t THEN TRUE
    ELSE IF Kind(t) = "interface" THEN Implements(vt, t)
    ELSE /\ ~(Named(vt) /\ Named(t))
         /\ Kind(vt) = Kind(t)
         /\ Underlying(vt) = Underlying(t)

\* Mutant of matchesType: every value passes.
matchesTypeAny(v, t) == TRUE

\* matchesType checks if the value v matches the expected type t.
matchesType(v, t) ==
    IF v = NilV THEN FALSE
    ELSE IF Kind(t) = "interface" THEN Implements(v.t, t)
    ELSE IF v.t = t THEN TRUE
    ELSE IF AssignableTo(v.t, t) THEN TRUE
    ELSE IF Kind(t) = "ptr" THEN (IF v.t = Elem(t) THEN TRUE ELSE AssignableTo(v.t, Elem(t)))
    ELSE FALSE

-----------------------------------------------------------------------------
(* The module registry and the modules registered *)

testCheckResult == "check_result"

testCheckError == "check_error"

testSetResult == "set_result"

testSetError == "set_error"

\* The registry after initialization: the engine's own test module, and
\* ext_module, which stands for any other registered implementation of the
\* Module interface (its Validate, Check and Set may return anything).
registeredModuleFactories == {"test_module", "ext_module"}

testModuleInfo ==
    [Inputs |->
        [n \in {testCheckResult, testCheckError, testSetResult, testSetError} |->
            IF n \in {testCheckResult, testSetResult}
            THEN [Type |-> "bool", Required |-> TRUE, Default |-> NilV]
            ELSE [Type |-> "bool", Required |-> FALSE, Default |-> BoolV(FALSE)]],
     Outputs |-> [n \in {"result"} |-> [Type |-> "string"]]]

\* ext_module declares one input, optional and without default.
extModuleInfo ==
    [Inputs |-> [n \in {"note"} |-> [Type |-> "string", Required |-> FALSE, Default |-> NilV]],
     Outputs |-> EmptyMap]

\* Module.Info of the module registered under an id.
Info(module) == IF module = "test_module" THEN testModuleInfo ELSE extModuleInfo

\* Mutant of NewModule: an unregistered module id is not noticed.
NewModuleUnchecked(op) == nil

\* NewModule: the error of instantiating the module of an operation.
NewModule(op) ==
    IF op.Module \in registeredModuleFactories THEN nil
    ELSE <<"unknown module", op.Module>>

-----------------------------------------------------------------------------
(* The module context *)

\* Mutant of newModuleContext: the flags of the operation are not passed on.
newModuleContextNoFlags(op) ==
    LET iv == [k \in {j \in DOMAIN op.Inputs : IsStatic(op.Inputs[j])} |-> op.Inputs[k]]
        dflt == {n \in DOMAIN Info(op.Module).Inputs :
                    /\ n \notin DOMAIN iv
                    /\ (Info(op.Module).Inputs[n].Default # NilV
                          \/ ~Info(op.Module).Inputs[n].Required)}
    IN [inputValues |->
            [k \in (DOMAIN iv) \cup dflt |->
                IF k \in DOMAIN iv THEN iv[k]
                ELSE NewInputFromValue(Info(op.Module).Inputs[k].Default)],
        outputValues |-> EmptyMap,
        dne |-> FALSE,
        tainted |-> FALSE]

\* Mutant of newModuleContext: the declared defaults are not filled in.
newModuleContextNoDefaults(op) ==
    [inputValues |->
        [k \in {j \in DOMAIN op.Inputs : IsStatic(op.Inputs[j])} |-> op.Inputs[k]],
     outputValues |-> EmptyMap,
     dne |-> op.DoesNotExist,
     tainted |-> op.Tainted]

\* newModuleContext: the static inputs of the operation, then the defaults of
\* the declared inputs that are unset and optional or defaulted.
newModuleContext(op) ==
    LET iv == [k \in {j \in DOMAIN op.Inputs : IsStatic(op.Inputs[j])} |-> op.Inputs[k]]
        info == Info(op.Module)
        dflt == {n \in DOMAIN info.Inputs :
                    /\ n \notin DOMAIN iv
                    /\ (info.Inputs[n].Default # NilV \/ ~info.Inputs[n].Required)}
    IN [inputValues |->
            [k \in (DOMAIN iv) \cup dflt |->
                IF k \in DOMAIN iv THEN iv[k]
                ELSE NewInputFromValue(info.Inputs[k].Default)],
        outputValues |-> EmptyMap,
        dne |-> op.DoesNotExist,
        tainted |-> op.Tainted]

\* Mutant of setInput: the value is stored, and marked as a dependency output.
setInputUnresolved(mc, key, value) ==
    [mc EXCEPT !.inputValues =
        MapPut(@, key, [NewInputFromValue(value) EXCEPT !.hasDep = TRUE])]

\* setInput: set an input value in the module context, from a dependency.
setInput(mc, key, value) ==
    [mc EXCEPT !.inputValues = MapPut(@, key, NewInputFromValue(value))]

\* Mutant of getOutput: a key that was never set yields nil without an error.
getOutputOrNil(mc, key) ==
    IF key \notin DOMAIN mc.outputValues THEN [val |-> NilV, err |-> nil]
    ELSE [val |-> mc.outputValues[key], err |-> nil]

\* getOutput: an output value of a dependency's context, or the error.
getOutput(mc, key) ==
    IF key \notin DOMAIN mc.outputValues
    THEN [val |-> NilV, err |-> <<"output key does not exist", key>>]
    ELSE [val |-> mc.outputValues[key], err |-> nil]

\* Mutant of Output: a key already set is overwritten.
OutputOverwrite(mc, key, value) ==
    [mc |-> [mc EXCEPT !.outputValues = MapPut(@, key, value)], err |-> nil]

\* Output is used by modules to set output values; a key already set is an error.
Output(mc, key, value) ==
    IF key \in DOMAIN mc.outputValues
    THEN [mc |-> mc, err |-> <<"output key already exists", key>>]
    ELSE [mc |-> [mc EXCEPT !.outputValues = MapPut(@, key, value)], err |-> nil]

\* Input is used by modules to get input values.
Input(mc, key) ==
    IF key \in DOMAIN mc.inputValues
    THEN [in |-> mc.inputValues[key], err |-> nil]
    ELSE [in |-> NewInputFromValue(NilV), err |-> <<"input key", key, ErrInputDoesNotExist>>]

-----------------------------------------------------------------------------
(* The test module: Check and Set as written *)

\* fmt.Sprintf("input_%d", i) and fmt.Sprintf("output_%d", i), 0 <= i < 10.
InputName(i) ==
    <<"input_0", "input_1", "input_2", "input_3", "input_4",
      "input_5", "input_6", "input_7", "input_8", "input_9">>[i + 1]

OutputName(i) ==
    <<"output_0", "output_1", "output_2", "output_3", "output_4",
      "output_5", "output_6", "output_7", "output_8", "output_9">>[i + 1]

RECURSIVE echoInputs(_, _)
\* The loop shared by Check and Set: publish output_i for input_0, input_1, ...
\* until the first input that does not exist ("foo" is published as "bar").
echoInputs(mc, i) ==
    IF i >= 10 THEN [mc |-> mc, err |-> nil]
    ELSE LET r == Input(mc, InputName(i)) IN
         IF r.err # nil THEN [mc |-> mc, err |-> nil]
         ELSE LET a == Auto(r.in) IN
              IF a.err # nil THEN [mc |-> mc, err |-> a.err]
              ELSE LET o == Output(mc, OutputName(i),
                                   IF a.val = StrV("foo") THEN StrV("bar") ELSE a.val) IN
                   IF o.err # nil THEN [mc |-> o.mc, err |-> o.err]
                   ELSE echoInputs(o.mc, i + 1)

\* testModule.Check: the context after the call, the boolean and the error.
testModuleCheck(mc) ==
    LET cr == Input(mc, testCheckResult)
        ce == Input(mc, testCheckError)
    IN  IF cr.err # nil THEN [mc |-> mc, check |-> FALSE, err |-> cr.err]
        ELSE IF ce.err # nil THEN [mc |-> mc, check |-> FALSE, err |-> ce.err]
        ELSE
        LET res == Bool(cr.in)
            sr == Input(mc, testSetResult)
            setRes == IF sr.err # nil THEN TRUE ELSE Bool(sr.in)
            o == IF res THEN Output(mc, testSetResult, BoolV(setRes))
                 ELSE [mc |-> mc, err |-> nil]
        IN  IF o.err # nil THEN [mc |-> o.mc, check |-> FALSE, err |-> o.err]
            ELSE
            LET e == echoInputs(o.mc, 0) IN
            IF e.err # nil THEN [mc |-> e.mc, check |-> FALSE, err |-> e.err]
            ELSE [mc |-> e.mc, check |-> res,
                  err |-> IF Bool(ce.in) THEN <<"test error on check">> ELSE nil]

\* testModule.Set: the context after the call and the error.
testModuleSet(mc) ==
    LET sr == Input(mc, testSetResult)
        se == Input(mc, testSetError)
    IN  IF sr.err # nil THEN [mc |-> mc, err |-> sr.err]
        ELSE IF se.err # nil THEN [mc |-> mc, err |-> se.err]
        ELSE
        LET o == Output(mc, testSetResult, BoolV(Bool(sr.in))) IN
        IF o.err # nil THEN [mc |-> o.mc, err |-> o.err]
        ELSE
        LET e == echoInputs(o.mc, 0) IN
        IF e.err # nil THEN [mc |-> e.mc, err |-> e.err]
        ELSE [mc |-> e.mc,
              err |-> IF Bool(se.in) THEN <<"test error on set">> ELSE nil]

\* Module.Validate: the errors the module of an operation may return.
ModuleValidate(op) ==
    IF op.Module = "test_module" THEN {nil}
    ELSE {nil, <<"invalid operation">>}

\* Module.Check: the outcomes the module of an operation may produce.
ModuleCheck(op, mc) ==
    IF op.Module = "test_module" THEN {testModuleCheck(mc)}
    ELSE {[mc |-> mc, check |-> c, err |-> e] :
            c \in BOOLEAN, e \in {nil, <<"check failed">>}}

\* Module.Set: the outcomes the module of an operation may produce.
ModuleSet(op, mc) ==
    IF op.Module = "test_module" THEN {testModuleSet(mc)}
    ELSE {[mc |-> mc, err |-> e] : e \in {nil, <<"set failed">>}}

-----------------------------------------------------------------------------
(* Operation.setup *)

Contains(seq, x) == \E i \in 1..Len(seq) : seq[i] = x

\* Mutant of setupWalk: no dependency is added.
setupWalkNothing(o, names) == o

RECURSIVE setupWalkAppendAll(_, _)
\* Mutant of setupWalk: the dependency id is appended without looking whether
\* DependsOn holds it already.
setupWalkAppendAll(o, names) ==
    IF names = <<>> THEN o
    ELSE LET v == o.Inputs[Head(names)]
             o1 == IF IsStatic(v) THEN o
                   ELSE [o EXCEPT !.DependsOn = Append(@, DependencyId(v))]
         IN setupWalkAppendAll(o1, Tail(names))

RECURSIVE setupWalk(_, _)
\* The loop of setup over the inputs of o, visited in the order `names`:
\* append the dependency id of every non-static input not yet in DependsOn.
setupWalk(o, names) ==
    IF names = <<>> THEN o
    ELSE LET v == o.Inputs[Head(names)]
             o1 == IF IsStatic(v) \/ Contains(o.DependsOn, DependencyId(v)) THEN o
                   ELSE [o EXCEPT !.DependsOn = Append(@, DependencyId(v))]
         IN setupWalk(o1, Tail(names))

RECURSIVE SeqOfSet(_)
\* One enumeration order of a set (Go leaves the order of a map range open).
SeqOfSet(S) ==
    IF S = {} THEN <<>>
    ELSE LET x == CHOOSE y \in S : TRUE IN <<x>> \o SeqOfSet(S \ {x})

\* setup: the operation as the call leaves its receiver.
setup(o) == setupWalk(o, SeqOfSet(DOMAIN o.Inputs))

-----------------------------------------------------------------------------
(* The dependency graph and the topological sort *)

RECURSIVE addDeps(_, _)
\* opoSort's loop: g.ops[i] = op.Id and addDep(op.Id, dep) for every dependency.
addDeps(ops, i) ==
    IF i = 0 THEN [deps |-> EmptyMap, ops |-> <<>>]
    ELSE LET g == addDeps(ops, i - 1)
             op == ops[i]
             old == IF op.Id \in DOMAIN g.deps THEN g.deps[op.Id] ELSE <<>>
         IN [deps |-> IF op.DependsOn = <<>> THEN g.deps
                      ELSE MapPut(g.deps, op.Id, old \o op.DependsOn),
             ops |-> Append(g.ops, op.Id)]

\* Mutant of depsOf: only the first dependency of an operation is followed.
depsOfFirst(g, opId) ==
    IF opId \in DOMAIN g.deps THEN SubSeq(g.deps[opId], 1, 1) ELSE <<>>

\* g.deps[opId]: nil for an operation without dependencies.
depsOf(g, opId) == IF opId \in DOMAIN g.deps THEN g.deps[opId] ELSE <<>>

RECURSIVE dfs(_, _, _)
RECURSIVE dfsDeps(_, _, _, _)
\* dfs: st holds visited, recursionStack, the order built so far and the error.
dfs(g, opId, st) ==
    LET st1 == [st EXCEPT !.visited = @ \cup {opId}, !.recursionStack = @ \cup {opId}]
        st2 == dfsDeps(g, depsOf(g, opId), 1, st1)
    IN  IF st2.err # nil THEN st2
        ELSE [st2 EXCEPT !.recursionStack = @ \ {opId}, !.order = Append(@, opId)]

RECURSIVE dfsDepsNoCycleCheck(_, _, _, _)
\* Mutant of dfsDeps: the recursion stack is not consulted.
dfsDepsNoCycleCheck(g, ds, i, st) ==
    IF i > Len(ds) THEN st
    ELSE IF ds[i] \notin st.visited
    THEN LET s2 == dfs(g, ds[i], st) IN
         IF s2.err # nil THEN s2 ELSE dfsDepsNoCycleCheck(g, ds, i + 1, s2)
    ELSE dfsDepsNoCycleCheck(g, ds, i + 1, st)

RECURSIVE dfsDepsVisitedIsCycle(_, _, _, _)
\* Mutant of dfsDeps: a dependency that was visited before is taken for a cycle.
dfsDepsVisitedIsCycle(g, ds, i, st) ==
    IF i > Len(ds) THEN st
    ELSE IF ds[i] \in st.visited
    THEN [st EXCEPT !.err = <<"cycle involving", ds[i], ErrOperationCycle>>]
    ELSE LET s2 == dfs(g, ds[i], st) IN
         IF s2.err # nil THEN s2 ELSE dfsDepsVisitedIsCycle(g, ds, i + 1, s2)

\* The loop of dfs over g.deps[opId], from its i-th entry on.
dfsDeps(g, ds, i, st) ==
    IF i > Len(ds) THEN st
    ELSE LET depId == ds[i] IN
         IF depId \in st.recursionStack
         THEN [st EXCEPT !.err = <<"cycle involving", depId, ErrOperationCycle>>]
         ELSE IF depId \notin st.visited
         THEN LET s2 == dfs(g, depId, st) IN
              IF s2.err # nil THEN s2 ELSE dfsDeps(g, ds, i + 1, s2)
         ELSE dfsDeps(g, ds, i + 1, st)

RECURSIVE topoSortFrom(_, _, _)
\* The loop of topoSort over g.ops, from its i-th entry on.
topoSortFrom(g, i, st) ==
    IF i > Len(g.ops) THEN st
    ELSE IF g.ops[i] \notin st.visited
    THEN LET s2 == dfs(g, g.ops[i], st) IN
         IF s2.err # nil THEN s2 ELSE topoSortFrom(g, i + 1, s2)
    ELSE topoSortFrom(g, i + 1, st)

\* Mutant of topoSort: the operations in the order they are declared.
topoSortDeclared(g) == [order |-> g.ops, err |-> nil]

\* topoSort: the order (nil on error) and the error.
topoSort(g) ==
    LET st == topoSortFrom(g, 1, [visited |-> {}, recursionStack |-> {},
                                  order |-> <<>>, err |-> nil])
    IN IF st.err # nil THEN [order |-> <<>>, err |-> st.err]
       ELSE [order |-> st.order, err |-> nil]

\* opoSort: topologically sort operations by id into a linear execution plan.
opoSort(ops) == topoSort(addDeps(ops, Len(ops)))

-----------------------------------------------------------------------------
(* The type-compatibility pass *)

\* Mutant of inputError: no input is ever found wrong.
inputErrorNone(op, name, param, opsInfo) == nil

\* The body of checkInputsOutputs' loop for one declared input: its error.
inputError(op, name, param, opsInfo) ==
    IF name \notin DOMAIN op.Inputs
    THEN IF param.Required THEN <<"missing required input", name, op.Id>> ELSE nil
    ELSE LET input == op.Inputs[name] IN
         IF IsStatic(input)
         THEN IF ~matchesType(Any(input), param.Type)
              THEN <<"static input is not assignable to expected type", name, op.Id>>
              ELSE nil
         ELSE LET depId == DependencyId(input)
                  outputKey == OutputKey(input) IN
              IF depId \notin DOMAIN opsInfo
              THEN <<"dependency operation not found", depId, name, op.Id>>
              ELSE IF outputKey \notin DOMAIN opsInfo[depId].Outputs
              THEN <<"output from dependency operation not found", outputKey, depId, name, op.Id>>
              ELSE IF opsInfo[depId].Outputs[outputKey].Type # param.Type
              THEN <<"input does not match expected type from dependency", name, op.Id, depId>>
              ELSE nil

\* checkInputsOutputs: the errors the call may return (the first failing input
\* in the order the map range visits them); the empty set when it returns nil.
checkInputsOutputs(op, info, opsInfo) ==
    {inputError(op, name, info.Inputs[name], opsInfo) : name \in DOMAIN info.Inputs} \ {nil}

-----------------------------------------------------------------------------
(* The workflow execution *)

VARIABLES
    ops,        \* we.w.Operations
    pc,         \* the statement of execute the run is at
    result,     \* the WorkflowResult being built
    sortedIds,  \* the order opoSort returned
    opCtxs,     \* we.opCtxs: operation id -> module context
    idx,        \* index into sortedIds of the Execute loop
    calls,      \* history: the module calls in the order they returned, each
                \* with what it returned and the outputs of its context then
    completed,  \* history: the operations execute returned nil for
    mctx,       \* a module context under direct Output calls
    outLog,     \* history: the Output calls made on mctx
    receiver,   \* the operation setup() was called on, once it has returned
    ctx,        \* the context passed to Run: its Err(), and (history) the
                \* operations that had begun when it was cancelled
    registry,   \* registeredModuleFactories: module id -> factory
    regLog,     \* history: the RegisterModule calls made after initialization
    we,         \* the workflowExecution that is running: its workflow and the
                \* address of its opCtxs map (opCtxs is that map's content)
    heap,       \* the opCtxs maps of the executions, by address, as they were
                \* when their execution last stopped running
    parked,     \* the executions started and not running now
    alone,      \* history: the outcome of the run made before any other started
    unit,       \* one operation of a built-in module executed on mctx: the
                \* module, the resource it manages, and how far execute has got
    probe,      \* a value put through one function: a static input through
                \* checkInputsOutputs (its value, the declared type, the error),
                \* or an input and what one of its accessors returned
    validated,  \* how often the Validate loop called Validate for each
                \* operation id (of the run that got there last)
    k8s         \* runWorkflowsInK8s: the cluster, the loop over the namespaces,
                \* the goroutines, wfErrors and the error returned

regVars == <<registry, regLog>>

concVars == <<we, heap, parked, alone>>

unitVars == <<unit>>

probeVars == <<probe>>

validateVars == <<validated>>

k8sVars == <<k8s>>

\* What execute neither reads nor writes of the state outside a run.
sideVars == <<receiver, ctx, regVars, concVars, unitVars, probeVars, validateVars, k8sVars>>

vars == <<ops, pc, result, sortedIds, opCtxs, idx, calls, completed, mctx, outLog,
          sideVars>>

ctxVars == <<mctx, outLog, sideVars>>

runVars == <<ops, pc, result, sortedIds, opCtxs, idx, calls, completed>>

\* The maps execute builds in its instantiate loop.
operations == [id \in {ops[i].Id : i \in 1..Len(ops)} |->
                 ops[CHOOSE i \in 1..Len(ops) :
                        /\ ops[i].Id = id
                        /\ \A j \in (i + 1)..Len(ops) : ops[j].Id # id]]

moduleInfo == [id \in DOMAIN operations |-> Info(operations[id].Module)]

\* Lines 78-85: op.setup() is called on the loop variable, a copy of the slice
\* element, so the DependsOn it appends to is dropped with the copy.
setupAll(w) == [i \in 1..Len(w) |-> LET op == setup(w[i]) IN w[i]]

Setup ==
    /\ pc = "setup"
    /\ ops' = setupAll(ops)
    /\ result' = [result EXCEPT !.Phase = phaseSetup, !.TotalOperations = Len(ops)]
    /\ pc' = "instantiate"
    /\ UNCHANGED <<sortedIds, opCtxs, idx, calls, completed, ctxVars>>

\* Lines 93-106: the first operation whose module cannot be instantiated.
Instantiate ==
    /\ pc = "instantiate"
    /\ LET bad == {i \in 1..Len(ops) : NewModule(ops[i]) # nil} IN
       IF bad = {}
       THEN /\ pc' = "sort"
            /\ UNCHANGED result
       ELSE LET i == CHOOSE k \in bad : \A j \in bad : k <= j IN
            /\ result' = [result EXCEPT
                            !.Err = <<"unable to instantiate module for operation">>
                                        \o NewModule(ops[i]),
                            !.Op = ops[i].Id]
            /\ pc' = "done"
    /\ UNCHANGED <<ops, sortedIds, opCtxs, idx, calls, completed, ctxVars>>

\* Lines 109-114.
Sort ==
    /\ pc = "sort"
    /\ LET r == opoSort(ops) IN
       IF r.err # nil
       THEN /\ result' = [result EXCEPT
                            !.Op = NoOp,
                            !.Err = <<"unable to sort operations">> \o r.err]
            /\ pc' = "done"
            /\ UNCHANGED sortedIds
       ELSE /\ sortedIds' = r.order
            /\ pc' = "typecheck"
            /\ UNCHANGED result
    /\ UNCHANGED <<ops, opCtxs, idx, calls, completed, ctxVars>>

\* Lines 116-131: the type-compatibility pass in sorted order. An iteration
\* fails when the id has no module info or checkInputsOutputs returns an error.
typeCheckFails(i) ==
    IF sortedIds[i] \notin DOMAIN moduleInfo THEN TRUE
    ELSE checkInputsOutputs(operations[sortedIds[i]], moduleInfo[sortedIds[i]],
                            moduleInfo) # {}

TypeCheck ==
    /\ pc = "typecheck"
    /\ LET bad == {i \in 1..Len(sortedIds) : typeCheckFails(i)} IN
       IF bad = {}
       THEN /\ pc' = "validate"
            /\ result' = [result EXCEPT !.Phase = phaseValidate]
       ELSE LET i == CHOOSE k \in bad : \A j \in bad : k <= j
                opId == sortedIds[i] IN
            /\ pc' = "done"
            /\ IF opId \notin DOMAIN moduleInfo
               THEN result' = [result EXCEPT
                                 !.Phase = phaseValidate,
                                 !.Err = <<"unable to find module info for operation", opId>>]
               ELSE \E e \in checkInputsOutputs(operations[opId], moduleInfo[opId], moduleInfo) :
                        result' = [result EXCEPT
                                     !.Phase = phaseValidate, !.Err = e, !.Op = opId]
    /\ UNCHANGED <<ops, sortedIds, opCtxs, idx, calls, completed, ctxVars>>

\* Mutant of visits: the loop validates nothing.
visitsNone(before, last) == EmptyMap

\* The Validate calls of a loop that visited the ids `before` and then `last`:
\* a map range yields each key once, the body calls Validate once.
visits(before, last) == [id \in before \cup {last} |-> 1]

\* Lines 134-146: every module validates its operation, in the order of a map
\* range; the loop stops at the first error. last is the operation visited
\* last, before are those visited earlier, whose Validate returned nil.
Validate ==
    /\ pc = "validate"
    /\ \E last \in DOMAIN operations :
         \E e \in ModuleValidate(operations[last]) :
            IF e # nil
            THEN /\ \E before \in SUBSET (DOMAIN operations \ {last}) :
                       /\ \A b \in before : nil \in ModuleValidate(operations[b])
                       /\ validated' = visits(before, last)
                 /\ result' = [result EXCEPT
                                 !.Op = last,
                                 !.Err = <<"validation failed for operation", last>> \o e]
                 /\ pc' = "done"
            ELSE /\ \A b \in DOMAIN operations : nil \in ModuleValidate(operations[b])
                 /\ validated' = visits(DOMAIN operations \ {last}, last)
                 /\ result' = [result EXCEPT !.Op = last, !.Phase = phaseExecute]
                 /\ pc' = "begin"
    /\ idx' = 1
    /\ UNCHANGED <<ops, sortedIds, opCtxs, calls, completed, mctx, outLog, receiver, ctx,
                   regVars, concVars, unitVars, probeVars, k8sVars>>


RECURSIVE setupOperationContextWalk(_, _, _, _)
\* setupOperationContext's loop over the inputs of op in the order `names`:
\* inject the dependency's output for every non-static input, stop at an error.
setupOperationContextWalk(mc, op, names, ctxs) ==
    IF names = <<>> THEN [mc |-> mc, err |-> nil]
    ELSE LET k == Head(names)
             input == op.Inputs[k] IN
         IF IsStatic(input) THEN setupOperationContextWalk(mc, op, Tail(names), ctxs)
         ELSE IF DependencyId(input) \notin DOMAIN ctxs
         THEN [mc |-> mc,
               err |-> <<"dependency operation context not found", DependencyId(input)>>]
         ELSE LET depOutput == getOutput(ctxs[DependencyId(input)], OutputKey(input)) IN
              IF depOutput.err # nil THEN [mc |-> mc, err |-> depOutput.err]
              ELSE setupOperationContextWalk(setInput(mc, k, depOutput.val), op,
                                             Tail(names), ctxs)

\* The orders in which a map range may visit the keys S.
Orders(S) ==
    {f \in [1..Cardinality(S) -> S] : \A i, j \in 1..Cardinality(S) : i # j => f[i] # f[j]}

\* setupOperationContext: the outcomes of the call (static inputs are skipped,
\* so only the order of the others tells). ctxs is we.opCtxs, which already
\* holds mc under op.Id.
setupOperationContext(mc, op, ctxs) ==
    {setupOperationContextWalk(mc, op, names, ctxs) :
        names \in Orders({k \in DOMAIN op.Inputs : ~IsStatic(op.Inputs[k])})}

\* Mutant of nextOperation: the operation is executed again.
nextOperationAgain ==
    /\ idx' = idx
    /\ pc' = "begin"

\* The end of one iteration of the Execute loop that did not return.
nextOperation ==
    /\ idx' = idx + 1
    /\ pc' = IF idx + 1 > Len(sortedIds) THEN "done" ELSE "begin"

\* Lines 151-161: build the context of the next operation and wire its inputs.
BeginOperation ==
    /\ pc = "begin"
    /\ LET id == sortedIds[idx]
           op == operations[id]
           c0 == newModuleContext(op)
           ctxs == MapPut(opCtxs, id, c0) IN
       \E r \in setupOperationContext(c0, op, ctxs) :
          /\ opCtxs' = MapPut(opCtxs, id, r.mc)
          /\ IF r.err # nil
             THEN /\ result' = [result EXCEPT
                                  !.Op = id,
                                  !.Err = <<"error setting up context">> \o r.err]
                  /\ pc' = "done"
             ELSE /\ result' = [result EXCEPT !.Op = id]
                  /\ pc' = "check"
    /\ UNCHANGED <<ops, sortedIds, idx, calls, completed, ctxVars>>

\* Mutant of checkPassed: a Check error sends the operation to Set.
checkPassedNoError(check, err) == check /\ err = nil

\* Mutant of checkPassed: Set is called whatever Check returned.
checkPassedNever(check, err) == FALSE

\* The decision of Operation.execute after Check returned (check, err):
\* TRUE when execute returns nil without calling Set.
checkPassed(check, err) == check

\* Operation.execute, lines 76-90: Check; its error is only logged.
CheckOperation ==
    /\ pc = "check"
    /\ LET id == sortedIds[idx]
           op == operations[id] IN
       \E r \in ModuleCheck(op, opCtxs[id]) :
          /\ opCtxs' = [opCtxs EXCEPT ![id] = r.mc]
          /\ calls' = Append(calls, [fn |-> "Check", op |-> id, ok |-> r.check, err |-> r.err,
                                    out |-> r.mc.outputValues])
          /\ IF checkPassed(r.check, r.err)
             THEN /\ result' = [result EXCEPT !.CompletedOperations = @ + 1]
                  /\ completed' = completed \cup {id}
                  /\ nextOperation
             ELSE /\ pc' = "set"
                  /\ UNCHANGED <<result, completed, idx>>
    /\ UNCHANGED <<ops, sortedIds, ctxVars>>

\* Mutant of setPassed: the error of Set is dropped.
setPassedAlways(err) == TRUE

\* The decision of execute's loop after op.execute returned err: TRUE when
\* the run goes on with the next operation.
setPassed(err) == err = nil

\* Operation.execute, lines 92-99, and execute, lines 164-169: Set.
SetOperation ==
    /\ pc = "set"
    /\ LET id == sortedIds[idx]
           op == operations[id] IN
       \E r \in ModuleSet(op, opCtxs[id]) :
          /\ opCtxs' = [opCtxs EXCEPT ![id] = r.mc]
          /\ calls' = Append(calls, [fn |-> "Set", op |-> id, ok |-> r.err = nil, err |-> r.err,
                                    out |-> r.mc.outputValues])
          /\ IF setPassed(r.err)
             THEN /\ result' = [result EXCEPT !.CompletedOperations = @ + 1]
                  /\ completed' = completed \cup {id}
                  /\ nextOperation
             ELSE /\ result' = [result EXCEPT !.Err = r.err]
                  /\ pc' = "done"
                  /\ UNCHANGED <<completed, idx>>
    /\ UNCHANGED <<ops, sortedIds, ctxVars>>

Next == Setup \/ Instantiate \/ Sort \/ TypeCheck \/ Validate
            \/ BeginOperation \/ CheckOperation \/ SetOperation

-----------------------------------------------------------------------------
(* The workflows explored *)

\* The id of the i-th operation of a workflow; "ghost" is no operation's id.
IdOf(i) == <<"a", "b", "c", "d", "e", "f">>[i]

Ids == {IdOf(i) : i \in 1..NumOps}

Operation(id, module, dependsOn, inputs) ==
    [Module |-> module, Id |-> id, DependsOn |-> dependsOn, Inputs |-> inputs,
     DoesNotExist |-> FALSE, Tainted |-> FALSE]

\* Inputs of a test_module operation: check_result, set_result, and
\* check_error / set_error when set.
TestInputs(cr, sr, ce, se) ==
    [n \in {testCheckResult, testSetResult}
            \cup (IF ce THEN {testCheckError} ELSE {})
            \cup (IF se THEN {testSetError} ELSE {}) |->
        NewInputFromValue(IF n = testCheckResult THEN cr
                          ELSE IF n = testSetResult THEN sr ELSE BoolV(TRUE))]

T == BoolV(TRUE)

F == BoolV(FALSE)

\* What an operation asks of its module: well-formed test_module operations in
\* every combination of Check result, Check error and Set error, the ill-formed
\* ones (wrong type, missing required input, unknown module), and ext_module.
Bodies ==
    {[Module |-> "test_module", Inputs |-> TestInputs(T, F, FALSE, FALSE)],
     [Module |-> "test_module", Inputs |-> TestInputs(F, T, FALSE, FALSE)],
     [Module |-> "test_module", Inputs |-> TestInputs(T, T, TRUE, FALSE)],
     [Module |-> "test_module", Inputs |-> TestInputs(F, T, TRUE, FALSE)],
     [Module |-> "test_module", Inputs |-> TestInputs(F, T, FALSE, TRUE)],
     [Module |-> "test_module", Inputs |-> TestInputs(F, T, TRUE, TRUE)],
     [Module |-> "test_module", Inputs |-> TestInputs(StrV("yes"), T, FALSE, FALSE)],
     [Module |-> "test_module",
      Inputs |-> [n \in {testSetResult} |-> NewInputFromValue(T)]],
     [Module |-> "no_such_module", Inputs |-> TestInputs(T, F, FALSE, FALSE)],
     [Module |-> "ext_module", Inputs |-> EmptyMap]}

PlainBodies ==
    {[Module |-> "test_module", Inputs |-> TestInputs(T, F, FALSE, FALSE)],
     [Module |-> "test_module", Inputs |-> TestInputs(F, T, FALSE, FALSE)]}

\* Workflows of every mix of bodies, without dependencies or in a chain
\* declared backwards (each operation depends on the one declared after it).
BehaviourWorkflows ==
    {[i \in 1..NumOps |->
        Operation(IdOf(i), b[i].Module,
                  IF g = "backward" /\ i < NumOps THEN <<IdOf(i + 1)>> ELSE <<>>,
                  b[i].Inputs)] :
        b \in [1..NumOps -> Bodies], g \in {"none", "backward"}}

\* An input taken from another operation's output, on the undeclared input_0
\* or on the declared check_error.
Refs ==
    {[at |-> i, name |-> n, input |-> NewInputFromDep(x, k)] :
        i \in 1..NumOps, n \in {"input_0", testCheckError},
        x \in Ids \cup {"ghost"}, k \in {testSetResult, "result"}}

\* At most one explicit dependency (from = 0: none).
ExplicitEdges ==
    {[from |-> 0, to |-> "ghost"]}
        \cup {[from |-> j, to |-> y] : j \in 1..NumOps, y \in Ids \cup {"ghost"}}

\* Workflows with one dependency reference and at most one explicit dependency.
RefWorkflows ==
    {[i \in 1..NumOps |->
        Operation(IdOf(i), "test_module",
                  IF e.from = i THEN <<e.to>> ELSE <<>>,
                  IF r.at = i THEN MapPut(b[i].Inputs, r.name, r.input) ELSE b[i].Inputs)] :
        b \in [1..NumOps -> PlainBodies], r \in Refs, e \in ExplicitEdges}

Workflows == BehaviourWorkflows \cup RefWorkflows

\* DependsOn lists: up to two distinct operation ids, or the dangling "ghost".
DependsOnLists ==
    {<<>>, <<"ghost">>} \cup {<<x>> : x \in Ids}
        \cup {s \in {<<x, y>> : x \in Ids, y \in Ids} : s[1] # s[2]}

\* Workflows of every dependency graph: the first operation needs its Set, the
\* others are already in their desired state.
GraphWorkflows ==
    {[i \in 1..NumOps |->
        Operation(IdOf(i), "test_module", d[i],
                  IF i = 1 THEN TestInputs(F, T, FALSE, FALSE)
                  ELSE TestInputs(T, F, FALSE, FALSE))] :
        d \in [1..NumOps -> DependsOnLists]}

\* The registry once the init functions have run: each module id with the
\* factory it was registered with.
initialRegistry ==
    [m \in registeredModuleFactories |->
        IF m = "test_module" THEN "newTestModule" ELSE "newExtModule"]

\* Mutant of newWorkflowExecution: every execution uses the same opCtxs map.
newWorkflowExecutionShared(w, free) == [w |-> w, opCtxs |-> 0]

\* newWorkflowExecution: the execution of workflow w, with a map of its own
\* (make returns the next free address).
newWorkflowExecution(w, free) == [w |-> w, opCtxs |-> free]

\* The maps after the map of execution e was made: a map at a new address is
\* empty, a map that existed keeps what it holds.
made(h, e) ==
    [a \in DOMAIN h \cup {e.opCtxs} |-> IF a \in DOMAIN h THEN h[a] ELSE EmptyMap]

InitSide ==
    /\ receiver = <<>>
    /\ ctx = [err |-> nil, begun |-> {}]
    /\ registry = initialRegistry
    /\ regLog = <<>>
    /\ we = newWorkflowExecution(1, 1)
    /\ heap = made(EmptyMap, we)
    /\ parked = <<>>
    /\ alone = <<>>
    /\ unit = [module |-> "", world |-> "", before |-> "", pc |-> "idle",
               check |-> FALSE, checkErr |-> nil, setErr |-> nil]
    /\ probe = <<>>
    /\ validated = EmptyMap
    /\ k8s = [pc |-> "idle"]

InitCtx ==
    /\ mctx = [inputValues |-> EmptyMap, outputValues |-> EmptyMap,
               dne |-> FALSE, tainted |-> FALSE]
    /\ outLog = <<>>
    /\ InitSide

InitRun(w) ==
    /\ ops = w
    /\ pc = "setup"
    /\ result = [Phase |-> "", Op |-> NoOp, Err |-> nil,
                 TotalOperations |-> 0, CompletedOperations |-> 0]
    /\ sortedIds = <<>>
    /\ opCtxs = EmptyMap
    /\ idx = 0
    /\ calls = <<>>
    /\ completed = {}

Init == InitCtx /\ \E w \in Workflows : InitRun(w)

Spec == Init /\ [][Next]_vars

InitGraph == InitCtx /\ \E w \in GraphWorkflows : InitRun(w)

SpecGraph == InitGraph /\ [][Next]_vars

-----------------------------------------------------------------------------
(* One module context under Output calls *)

OutputKeys == {"k1", "k2"}

OutputValues == {T, F, StrV("foo")}

\* A module calls ctx.Output(k, v).
CallOutput ==
    /\ Len(outLog) < MaxOutputCalls
    /\ \E k \in OutputKeys, v \in OutputValues :
         LET r == Output(mctx, k, v) IN
         /\ mctx' = r.mc
         /\ outLog' = Append(outLog, [key |-> k, value |-> v, err |-> r.err])
    /\ UNCHANGED <<runVars, sideVars>>

NextCtx == CallOutput

IdleWorkflow == <<Operation("a", "test_module", <<>>, TestInputs(T, F, FALSE, FALSE))>>

InitIdle == InitCtx /\ InitRun(IdleWorkflow)

SpecCtx == InitIdle /\ [][NextCtx]_vars


-----------------------------------------------------------------------------
(* A value on its way from the output of one operation to the input of another *)

\* The values a module may publish: one or two of every kind.
FlowValues ==
    {StrV("text"), StrV(""), T, F, IntV("5"), Int64V("-3"), Uint64V("0"),
     Uint64V("9223372036854775808"), FloatV("1.5"), ObjV("connection")}

\* Operation a, whose module publishes outputs, and operation b, a test_module
\* operation whose input_0 is the output k of a.
FlowWorkflows ==
    {<<Operation("a", "ext_module", <<>>, EmptyMap),
       Operation("b", "test_module", <<"a">>,
                 MapPut(body.Inputs, InputName(0), NewInputFromDep("a", k)))>> :
        body \in PlainBodies, k \in OutputKeys}

\* The run is in the Execute loop, inside the module call of operation a.
InitFlow ==
    /\ InitCtx
    /\ \E w \in FlowWorkflows :
          /\ ops = w
          /\ opCtxs = MapPut(EmptyMap, w[1].Id, newModuleContext(w[1]))
          /\ sortedIds = <<w[1].Id, w[2].Id>>
    /\ pc = "module"
    /\ idx = 1
    /\ result = [Phase |-> phaseExecute, Op |-> "a", Err |-> nil,
                 TotalOperations |-> 2, CompletedOperations |-> 0]
    /\ calls = <<>>
    /\ completed = {}

\* The module of the running operation calls ctx.Output(k, v).
PublishOutput ==
    /\ pc = "module"
    /\ \E k \in OutputKeys, v \in FlowValues :
          opCtxs' = [opCtxs EXCEPT ![sortedIds[idx]] = Output(@, k, v).mc]
    /\ UNCHANGED <<ops, pc, result, sortedIds, idx, calls, completed, ctxVars>>

\* The module call returns with the desired state holding (execute, lines 164-169).
ModuleReturns ==
    /\ pc = "module"
    /\ result' = [result EXCEPT !.CompletedOperations = @ + 1]
    /\ completed' = completed \cup {sortedIds[idx]}
    /\ nextOperation
    /\ UNCHANGED <<ops, sortedIds, opCtxs, calls, ctxVars>>

NextFlow == PublishOutput \/ ModuleReturns \/ BeginOperation \/ CheckOperation \/ SetOperation

SpecFlow == InitFlow /\ [][NextFlow]_vars

-----------------------------------------------------------------------------
(* Operation.setup called on one operation *)

\* What an operation may give for one input besides nothing: a static value
\* or a reference to an output of an operation, or of no operation.
SetupInputs ==
    {NewInputFromValue(T)} \cup {NewInputFromDep(x, "result") : x \in Ids \cup {"ghost"}}

\* Operations with any DependsOn list and up to two inputs besides check_result.
SetupOperations ==
    {Operation("a", "test_module", d,
               [n \in {testCheckResult} \cup DOMAIN i |->
                    IF n = testCheckResult THEN NewInputFromValue(T) ELSE i[n]]) :
        d \in DependsOnLists,
        i \in UNION {[S -> SetupInputs] : S \in SUBSET {InputName(0), InputName(1)}}}

InitSetup ==
    /\ InitCtx
    /\ \E o \in SetupOperations : ops = <<o>>
    /\ pc = "call setup"
    /\ result = [Phase |-> "", Op |-> NoOp, Err |-> nil,
                 TotalOperations |-> 0, CompletedOperations |-> 0]
    /\ sortedIds = <<>>
    /\ opCtxs = EmptyMap
    /\ idx = 0
    /\ calls = <<>>
    /\ completed = {}

\* o.setup() on a pointer to the operation: the loop visits the inputs in one
\* of the orders of a map range.
CallSetup ==
    /\ pc = "call setup"
    /\ \E names \in Orders(DOMAIN ops[1].Inputs) :
          receiver' = <<setupWalk(ops[1], names)>>
    /\ pc' = "returned"
    /\ UNCHANGED <<ops, result, sortedIds, opCtxs, idx, calls, completed, mctx, outLog,
                   ctx, regVars, concVars, unitVars, probeVars, validateVars, k8sVars>>

NextSetup == CallSetup

SpecSetup == InitSetup /\ [][NextSetup]_vars

\* o.setup() called once more on the same operation, the inputs again visited
\* in one of the orders of a map range.
CallSetupAgain ==
    /\ pc = "returned"
    /\ \E names \in Orders(DOMAIN receiver[1].Inputs) :
          receiver' = Append(receiver, setupWalk(receiver[1], names))
    /\ pc' = "returned twice"
    /\ UNCHANGED <<ops, result, sortedIds, opCtxs, idx, calls, completed, mctx, outLog,
                   ctx, regVars, concVars, unitVars, probeVars, validateVars, k8sVars>>

NextSetupTwice == CallSetup \/ CallSetupAgain

SpecSetupTwice == InitSetup /\ [][NextSetupTwice]_vars

-----------------------------------------------------------------------------
(* Runs of workflows with tainted operations *)

\* Operations in or out of their desired state, of the test module (which
\* does not read the flag) or of another module, each tainted or not.
TaintWorkflows ==
    {[i \in 1..NumOps |->
        [Operation(IdOf(i), b[i].Module, <<>>, b[i].Inputs) EXCEPT !.Tainted = t[i]]] :
        b \in [1..NumOps -> PlainBodies \cup {[Module |-> "ext_module", Inputs |-> EmptyMap]}],
        t \in [1..NumOps -> BOOLEAN]}

InitTaint == InitCtx /\ \E w \in TaintWorkflows : InitRun(w)

SpecTaint == InitTaint /\ [][Next]_vars

-----------------------------------------------------------------------------
(* Runs whose context is cancelled *)

\* context.Canceled
Canceled == <<"context canceled">>

CancelWorkflows ==
    {[i \in 1..NumOps |-> Operation(IdOf(i), b[i].Module, <<>>, b[i].Inputs)] :
        b \in [1..NumOps -> PlainBodies \cup {[Module |-> "ext_module", Inputs |-> EmptyMap]}]}

\* The caller of Run cancels the context while the Execute phase is under way.
\* Every module context hands mc.ctx.Err() on; execute itself never reads it.
Cancel ==
    /\ pc \in {"begin", "check", "set"}
    /\ ctx.err = nil
    /\ ctx' = [err |-> Canceled, begun |-> DOMAIN opCtxs]
    /\ UNCHANGED <<runVars, mctx, outLog, receiver, regVars, concVars, unitVars, probeVars, validateVars, k8sVars>>

InitCancel == InitCtx /\ \E w \in CancelWorkflows : InitRun(w)

NextCancel == Next \/ Cancel

SpecCancel == InitCancel /\ [][NextCancel]_vars

-----------------------------------------------------------------------------
(* The module registry under RegisterModule calls *)

ModuleIds == {"test_module", "mock_module", "postgres_role"}

Factories == {"newTestModule", "NewModule", "NewPostgresRole"}

\* RegisterModule: the registry after the call, and whether the call panicked.
RegisterModule(reg, module, factory) ==
    [registry |-> MapPut(reg, module, factory), panic |-> FALSE]

CallRegisterModule ==
    /\ Len(regLog) < MaxRegisterCalls
    /\ \E module \in ModuleIds, factory \in Factories :
          LET r == RegisterModule(registry, module, factory) IN
          /\ registry' = r.registry
          /\ regLog' = Append(regLog, [module |-> module, factory |-> factory,
                                       before |-> registry, panic |-> r.panic])
    /\ UNCHANGED <<runVars, mctx, outLog, receiver, ctx, concVars, unitVars, probeVars, validateVars, k8sVars>>

NextRegistry == CallRegisterModule

SpecRegistry == InitIdle /\ [][NextRegistry]_vars

-----------------------------------------------------------------------------
(* Two workflows run at the same time *)

\* Operation a in one of three behaviours (in its state; set by Set; Set
\* fails), and operation b, which depends on a and reads a's set_result.
ConcWorkflows ==
    {<<Operation("a", "test_module", <<>>, x),
       Operation("b", "test_module", <<"a">>,
                 MapPut(y.Inputs, "input_0", NewInputFromDep("a", testSetResult)))>> :
        x \in {TestInputs(T, F, FALSE, FALSE), TestInputs(F, T, FALSE, FALSE),
                TestInputs(F, T, FALSE, TRUE)},
        y \in PlainBodies}

\* The state of an execute call at its first statement.
started(w, e) ==
    [ops |-> w, pc |-> "setup",
     result |-> [Phase |-> "", Op |-> NoOp, Err |-> nil,
                 TotalOperations |-> 0, CompletedOperations |-> 0],
     sortedIds |-> <<>>, idx |-> 0, calls |-> <<>>, completed |-> {}, we |-> e]

\* The execution that is running, as it is parked.
running ==
    [ops |-> ops, pc |-> pc, result |-> result, sortedIds |-> sortedIds, idx |-> idx,
     calls |-> calls, completed |-> completed, we |-> we]

\* Make r the execution that is running, on the map m.
resume(r, m) ==
    /\ ops' = r.ops
    /\ pc' = r.pc
    /\ result' = r.result
    /\ sortedIds' = r.sortedIds
    /\ idx' = r.idx
    /\ calls' = r.calls
    /\ completed' = r.completed
    /\ we' = r.we
    /\ opCtxs' = m

\* After the first workflow has run alone: Run is called on it again and, at
\* the same time, on a second workflow (workflow.go 50-59, twice).
RunTogether ==
    /\ pc = "done"
    /\ alone = <<>>
    /\ alone' = <<[result |-> result, calls |-> calls, opCtxs |-> opCtxs]>>
    /\ \E w \in ConcWorkflows :
          LET e1 == newWorkflowExecution(1, 2)
              e2 == newWorkflowExecution(2, 3)
              h == made(made([heap EXCEPT ![we.opCtxs] = opCtxs], e1), e2) IN
          /\ heap' = h
          /\ parked' = <<started(w, e2)>>
          /\ resume(started(ops, e1), h[e1.opCtxs])
    /\ UNCHANGED <<mctx, outLog, receiver, ctx, regVars, unitVars, probeVars, validateVars, k8sVars>>

\* The scheduler stops the running execution and resumes the other one.
Switch ==
    /\ parked # <<>>
    /\ LET h == [heap EXCEPT ![we.opCtxs] = opCtxs] IN
       /\ heap' = h
       /\ parked' = <<running>>
       /\ resume(parked[1], h[parked[1].we.opCtxs])
    /\ UNCHANGED <<mctx, outLog, receiver, ctx, regVars, alone, unitVars, probeVars, validateVars, k8sVars>>

\* Run is called again on the workflow value whose run has ended.
RunAgain ==
    /\ pc = "done"
    /\ alone = <<>>
    /\ alone' = <<[result |-> result, calls |-> calls, opCtxs |-> opCtxs]>>
    /\ LET e == newWorkflowExecution(1, 2)
           h == made([heap EXCEPT ![we.opCtxs] = opCtxs], e) IN
       /\ heap' = h
       /\ resume(started(ops, e), h[e.opCtxs])
    /\ UNCHANGED <<mctx, outLog, receiver, ctx, regVars, parked, unitVars, probeVars, validateVars, k8sVars>>

\* Two-operation workflows of every mix of test_module bodies, and the
\* workflows with a dependency.
RerunWorkflows ==
    ConcWorkflows \cup
    {<<Operation("a", x.Module, <<>>, x.Inputs), Operation("b", y.Module, <<>>, y.Inputs)>> :
        x \in {z \in Bodies : z.Module # "ext_module"},
        y \in {z \in Bodies : z.Module # "ext_module"}}

InitRerun == InitCtx /\ \E w \in RerunWorkflows : InitRun(w)

NextRerun == Next \/ RunAgain

SpecRerun == InitRerun /\ [][NextRerun]_vars

InitConcurrent == InitCtx /\ \E w \in ConcWorkflows : InitRun(w)

NextConcurrent == Next \/ RunTogether \/ Switch

SpecConcurrent == InitConcurrent /\ [][NextConcurrent]_vars

-----------------------------------------------------------------------------
(* The built-in modules, each executing one operation *)

\* What a module finds of the thing it manages. For a resource module (ConfigMap,
\* Secret, CloudSQL user, managed instance): the resource is absent, is there
\* with other attributes, or is as the inputs ask. For a value module: the key
\* is absent from the data, holds another value, or holds the input value.
Worlds == {"absent", "differs", "matches"}

\* An error of the Kubernetes, CloudSQL or database API other than NotFound.
apiError == <<"api error">>

\* apierrors.IsNotFound holds of this error.
NotFound == <<"not found">>

ResourceModules ==
    {"kubernetes_client", "kubernetes_configmap", "kubernetes_secret",
     "postgres_connection", "google_cloudsql_user", "google_cloudsql_managed_instance"}

ValueModules == {"kubernetes_configmap_value", "kubernetes_secret_value"}

\* The keys of Info().Outputs of a built-in module.
builtinOutputs(module) ==
    CASE module = "kubernetes_client" -> {"client"}
      [] module = "kubernetes_configmap" -> {"configmap"}
      [] module = "kubernetes_secret" -> {"secret"}
      [] module \in {"postgres_connection", "google_cloudsql_managed_instance"} -> {"connection"}
      [] module = "google_cloudsql_user" -> {"user"}
      [] OTHER -> {}

\* The error of a Get on the resource: NotFound when it is absent, nil when it
\* is there, or another error.
getErrors(w) == {IF w = "absent" THEN NotFound ELSE nil, apiError}

checked(mc, check, err) == [mc |-> mc, check |-> check, err |-> err]

was(mc, err, w) == [mc |-> mc, err |-> err, world |-> w]

\* return ctx.Output(key, value), the resource being left as w.
published(mc, key, w) ==
    LET o == Output(mc, key, ObjV(key)) IN was(o.mc, o.err, w)

\* clientModule.Check
clientModuleCheck(mc, w) == {checked(mc, FALSE, nil)}

\* clientModule.Set
clientModuleSet(mc, w) ==
    {was(mc, <<"failed to connect to Kubernetes cluster">> \o apiError, w)}
        \cup {LET o == Output(mc, "client", ObjV("client")) IN
              was(o.mc, IF o.err # nil THEN <<"failed to set client output">> \o o.err
                        ELSE nil, "matches")}

\* configMapModule.Check and secretModule.Check: the same steps on key.
resourceCheck(mc, w, key) ==
    IF mc.tainted THEN {checked(mc, FALSE, nil)}
    ELSE {IF mc.dne
          THEN (IF g = NotFound THEN checked(mc, TRUE, nil) ELSE checked(mc, FALSE, g))
          ELSE IF g # nil THEN checked(mc, FALSE, g)
          ELSE IF w = "differs" THEN checked(mc, FALSE, nil)
          ELSE LET o == Output(mc, key, ObjV(key)) IN
               IF o.err # nil THEN checked(o.mc, FALSE, o.err)
               ELSE checked(o.mc, TRUE, nil) :
          g \in getErrors(w)}

\* The DoesNotExist branch of configMapModule.Set and of secretModule.Set.
resourceDelete(mc, w) ==
    UNION {IF g = NotFound THEN {was(mc, nil, w)}
           ELSE IF g # nil THEN {was(mc, g, w)}
           ELSE {was(mc, nil, "absent"), was(mc, apiError, w)} :
           g \in getErrors(w)}

\* The resource exists: update it when it differs, then publish it.
resourceUpdate(mc, w, key) ==
    (IF w = "differs" THEN {was(mc, apiError, w)} ELSE {})
        \cup {published(mc, key, "matches")}

configMapModuleCheck(mc, w) == resourceCheck(mc, w, "configmap")

\* configMapModule.Set
configMapModuleSet(mc, w) ==
    IF mc.dne THEN resourceDelete(mc, w)
    ELSE UNION {IF g = NotFound
                THEN {was(mc, apiError, w), published(mc, "configmap", "matches")}
                ELSE IF g # nil THEN {was(mc, g, w)}
                ELSE resourceUpdate(mc, w, "configmap") :
                g \in getErrors(w)}

secretModuleCheck(mc, w) == resourceCheck(mc, w, "secret")

\* secretModule.Set: after Create the error of Create is returned.
secretModuleSet(mc, w) ==
    IF mc.dne THEN resourceDelete(mc, w)
    ELSE UNION {IF g = NotFound
                THEN {was(mc, apiError, w), was(mc, nil, "matches")}
                ELSE IF g # nil THEN {was(mc, g, w)}
                ELSE resourceUpdate(mc, w, "secret") :
                g \in getErrors(w)}

\* connectionModule.Check: the target is built from the inputs.
connectionModuleCheck(mc, w) == {checked(mc, FALSE, nil)}

\* connectionModule.Set: open, ping, keep the handle in the module.
connectionModuleSet(mc, w) ==
    {was(mc, <<"error pinging database">> \o apiError, w), was(mc, nil, "matches")}

\* user.Check
userCheck(mc, w) ==
    {checked(mc, FALSE, <<"failed to list users">> \o apiError)}
        \cup {IF mc.tainted THEN checked(mc, FALSE, nil)
              ELSE LET res == IF mc.dne THEN w = "absent" ELSE w = "matches"
                       o == Output(mc, "user", StrV("user")) IN
                   IF res /\ ~mc.dne
                   THEN (IF o.err # nil THEN checked(o.mc, FALSE, o.err)
                         ELSE checked(o.mc, res, nil))
                   ELSE checked(mc, res, nil)}

\* user.Set: the output is written first, then the user is deleted or created
\* (a tainted user is deleted before, whatever that delete returns).
userSet(mc, w) ==
    {was(mc, apiError, w)}
        \cup (LET o == Output(mc, "user", StrV("user")) IN
              IF o.err # nil THEN {was(o.mc, o.err, w)}
              ELSE IF mc.dne THEN {was(o.mc, nil, "absent"), was(o.mc, apiError, w)}
              ELSE {was(o.mc, nil, "matches"), was(o.mc, apiError, w)}
                       \cup (IF mc.tainted THEN {was(o.mc, apiError, "absent")} ELSE {}))

\* managedInstance.Check: the managing user is a superuser or not.
managedInstanceCheck(mc, w) ==
    {checked(mc, FALSE, <<"failed to open database connection">> \o apiError)}
        \cup {LET res == IF mc.dne THEN w # "matches" ELSE w = "matches"
                  o == Output(mc, "connection", ObjV("connection")) IN
              IF res /\ ~mc.dne
              THEN (IF o.err # nil THEN checked(o.mc, res, o.err)
                    ELSE checked(o.mc, res, nil))
              ELSE checked(mc, res, nil)}

\* managedInstance.Set: grant or revoke, then publish the connection.
managedInstanceSet(mc, w) ==
    {was(mc, apiError, w)}
        \cup {published(mc, "connection", IF mc.dne THEN "absent" ELSE "matches")}

\* configMapValueModule.Check and secretValueModule.Check
valueCheck(mc, w) ==
    IF mc.tainted THEN {checked(mc, FALSE, nil)}
    ELSE IF mc.dne THEN {checked(mc, w = "absent", nil)}
    ELSE {checked(mc, w = "matches", nil)}

\* configMapValueModule.Set and secretValueModule.Set: with DoesNotExist a
\* key that exists is deleted; in every other case the key is assigned the
\* input value; then the resource is updated.
valueSet(mc, w) ==
    IF mc.dne /\ w # "absent"
    THEN {was(mc, nil, "absent"), was(mc, apiError, w)}
    ELSE {was(mc, nil, "matches"), was(mc, apiError, w)}

configMapValueModuleCheck(mc, w) == valueCheck(mc, w)

configMapValueModuleSet(mc, w) == valueSet(mc, w)

secretValueModuleCheck(mc, w) == valueCheck(mc, w)

secretValueModuleSet(mc, w) == valueSet(mc, w)

\* Module.Check of the built-in module registered under an id.
builtinCheck(module, mc, w) ==
    CASE module = "kubernetes_client" -> clientModuleCheck(mc, w)
      [] module = "kubernetes_configmap" -> configMapModuleCheck(mc, w)
      [] module = "kubernetes_secret" -> secretModuleCheck(mc, w)
      [] module = "postgres_connection" -> connectionModuleCheck(mc, w)
      [] module = "google_cloudsql_user" -> userCheck(mc, w)
      [] module = "google_cloudsql_managed_instance" -> managedInstanceCheck(mc, w)
      [] module = "kubernetes_configmap_value" -> configMapValueModuleCheck(mc, w)
      [] module = "kubernetes_secret_value" -> secretValueModuleCheck(mc, w)

\* Module.Set of the built-in module registered under an id.
builtinSet(module, mc, w) ==
    CASE module = "kubernetes_client" -> clientModuleSet(mc, w)
      [] module = "kubernetes_configmap" -> configMapModuleSet(mc, w)
      [] module = "kubernetes_secret" -> secretModuleSet(mc, w)
      [] module = "postgres_connection" -> connectionModuleSet(mc, w)
      [] module = "google_cloudsql_user" -> userSet(mc, w)
      [] module = "google_cloudsql_managed_instance" -> managedInstanceSet(mc, w)
      [] module = "kubernetes_configmap_value" -> configMapValueModuleSet(mc, w)
      [] module = "kubernetes_secret_value" -> secretValueModuleSet(mc, w)

\* The engine builds the context of an operation of a built-in module, with
\* the operation's flags; the resource is in any of its states.
StartOperation ==
    /\ unit.pc = "idle"
    /\ \E module \in ResourceModules \cup ValueModules, w \in Worlds,
          dne \in BOOLEAN, tainted \in BOOLEAN :
          /\ unit' = [unit EXCEPT !.module = module, !.world = w, !.before = w,
                                  !.pc = "check"]
          /\ mctx' = [inputValues |-> EmptyMap, outputValues |-> EmptyMap,
                      dne |-> dne, tainted |-> tainted]
    /\ UNCHANGED <<runVars, outLog, receiver, ctx, regVars, concVars, probeVars, validateVars, k8sVars>>

\* Operation.execute: Check; true ends the operation.
UnitCheck ==
    /\ unit.pc = "check"
    /\ \E r \in builtinCheck(unit.module, mctx, unit.world) :
          /\ mctx' = r.mc
          /\ unit' = [unit EXCEPT !.check = r.check, !.checkErr = r.err,
                                  !.pc = IF checkPassed(r.check, r.err) THEN "done"
                                         ELSE "set"]
    /\ UNCHANGED <<runVars, outLog, receiver, ctx, regVars, concVars, probeVars, validateVars, k8sVars>>

\* Operation.execute: Set, whose error is the operation's.
UnitSet ==
    /\ unit.pc = "set"
    /\ \E r \in builtinSet(unit.module, mctx, unit.world) :
          /\ mctx' = r.mc
          /\ unit' = [unit EXCEPT !.world = r.world, !.setErr = r.err,
                                  !.pc = IF r.err = nil THEN "set returned nil"
                                         ELSE "set failed"]
    /\ UNCHANGED <<runVars, outLog, receiver, ctx, regVars, concVars, probeVars, validateVars, k8sVars>>

NextModules == StartOperation \/ UnitCheck \/ UnitSet

SpecModules == InitIdle /\ [][NextModules]_vars

-----------------------------------------------------------------------------
(* Workflows with a dependency reference on a declared input *)

\* Operation a needs its Set; operation b, of either module, takes a declared
\* input (check_error: bool, or note: string) from an output of a, of itself
\* or of no operation, with or without the explicit dependency; operation c
\* is in its desired state or names an unregistered module.
DeclaredRefWorkflows ==
    {<<Operation("a", "test_module", <<>>, TestInputs(F, T, FALSE, FALSE)),
       Operation("b", m, d,
                 IF m = "test_module"
                 THEN MapPut(TestInputs(T, F, FALSE, FALSE), testCheckError,
                             NewInputFromDep(x, k))
                 ELSE MapPut(EmptyMap, "note", NewInputFromDep(x, k))),
       Operation("c", mc, <<>>, TestInputs(T, F, FALSE, FALSE))>> :
        m \in {"test_module", "ext_module"}, mc \in {"test_module", "no_such_module"},
        x \in {"a", "b", "ghost"}, k \in {"result", testSetResult},
        d \in {<<>>, <<"a">>, <<"b">>}}

InitRefs == InitCtx /\ \E w \in DeclaredRefWorkflows : InitRun(w)

SpecRefs == InitRefs /\ [][Next]_vars

-----------------------------------------------------------------------------
(* Workflows that meet module validation *)

\* What an operation asks of its module: ext_module, whose Validate may fail,
\* test_module in its desired state or needing its Set, and test_module with
\* a check_result of the wrong type.
ValidateBodies ==
    {[Module |-> "ext_module", Inputs |-> EmptyMap],
     [Module |-> "test_module", Inputs |-> TestInputs(T, F, FALSE, FALSE)],
     [Module |-> "test_module", Inputs |-> TestInputs(F, T, FALSE, FALSE)],
     [Module |-> "test_module", Inputs |-> TestInputs(StrV("yes"), T, FALSE, FALSE)]}

\* Three operations of every mix of these, the last one without dependencies,
\* depending on the first, or depending on itself.
ValidateWorkflows ==
    {<<Operation("a", b[1].Module, <<>>, b[1].Inputs),
       Operation("b", b[2].Module, <<>>, b[2].Inputs),
       Operation("c", b[3].Module, d, b[3].Inputs)>> :
        b \in [1..3 -> ValidateBodies], d \in {<<>>, <<"a">>, <<"c">>}}

InitValidate == InitCtx /\ \E w \in ValidateWorkflows : InitRun(w)

SpecValidate == InitValidate /\ [][Next]_vars

-----------------------------------------------------------------------------
(* The operation lists of the sort tests *)

\* Four operations test0 .. test3 with the DependsOn lists the opoSort tests
\* combine; test0 needs its Set, the others are in their desired state.
OrderWorkflows ==
    {<<Operation("test0", "test_module", d0, TestInputs(F, T, FALSE, FALSE)),
       Operation("test1", "test_module", d1, TestInputs(T, F, FALSE, FALSE)),
       Operation("test2", "test_module", d2, TestInputs(T, F, FALSE, FALSE)),
       Operation("test3", "test_module", d3, TestInputs(T, F, FALSE, FALSE))>> :
        d0 \in {<<>>, <<"test3">>},
        d1 \in {<<"test0">>, <<"test2">>, <<"test0", "test3">>, <<"test3", "test0">>},
        d2 \in {<<>>, <<"test0">>, <<"test1">>},
        d3 \in {<<>>, <<"test2">>, <<"test3">>}}

InitOrder == InitCtx /\ \E w \in OrderWorkflows : InitRun(w)

SpecOrder == InitOrder /\ [][Next]_vars

-----------------------------------------------------------------------------
(* Workflows whose last operation reads an output of the first *)

\* Operation a, in its desired state or needing its Set; operation m, which
\* may fail in its Set; operation b, whose input_0 is the output set_result or
\* result of a, with or without the explicit dependency.
OutputRefWorkflows ==
    {<<Operation("a", "test_module", <<>>, ba.Inputs),
       Operation("m", "test_module", <<>>, bm.Inputs),
       Operation("b", "test_module", d,
                 MapPut(bb.Inputs, InputName(0), NewInputFromDep("a", key)))>> :
        ba \in PlainBodies,
        bm \in PlainBodies
                \cup {[Module |-> "test_module", Inputs |-> TestInputs(F, T, FALSE, TRUE)]},
        bb \in PlainBodies,
        key \in {testSetResult, "result"},
        d \in {<<>>, <<"a">>}}

InitOutputRef == InitCtx /\ \E w \in OutputRefWorkflows : InitRun(w)

SpecOutputRef == InitOutputRef /\ [][Next]_vars

-----------------------------------------------------------------------------
(* One static input in the type-compatibility pass *)

\* A value of the type named t.
TypedV(t, s) == [t |-> t, v |-> s]

StaticValues ==
    {NilV, StrV("x"), StrV(""), T, IntV("1"), Int64V("1"), FloatV("1.5"),
     TypedV("map[string]interface {}", "{}"), TypedV("Labels", "{}"),
     TypedV("*bool", "&true"), TypedV("*kubernetes.Clientset", "client"), ObjV("x")}

DeclaredTypes ==
    {"string", "bool", "int", "*bool", "*string", "interface {}",
     "kubernetes.Interface", "Labels", "*Labels"}

\* checkInputsOutputs is called for an operation that supplies the static
\* value v for the one input its module declares, with type t.
CheckStaticInput ==
    /\ probe = <<>>
    /\ \E v \in StaticValues, t \in DeclaredTypes, required \in BOOLEAN :
          LET op == Operation("a", "probe_module", <<>>,
                              MapPut(EmptyMap, "in", NewInputFromValue(v)))
              info == [Inputs |-> MapPut(EmptyMap, "in",
                                         [Type |-> t, Required |-> required,
                                          Default |-> NilV]),
                       Outputs |-> EmptyMap] IN
          probe' = <<[value |-> v, type |-> t,
                      errs |-> checkInputsOutputs(op, info, MapPut(EmptyMap, "a", info))]>>
    /\ UNCHANGED <<runVars, mctx, outLog, receiver, ctx, regVars, concVars, unitVars,
                   validateVars, k8sVars>>

NextTypes == CheckStaticInput

SpecTypes == InitIdle /\ [][NextTypes]_vars

-----------------------------------------------------------------------------
(* One input read through its accessors *)

\* Scalars of every kind NewInputFromValue tells apart, at the ends of their
\* ranges and inside.
ScalarValues ==
    {StrV(""), StrV("text"), StrV("true"), StrV("5"), T, F,
     FloatV("0"), FloatV("1.5"), FloatV("-2.25"), FloatV("1e+308")}
      \cup {IntV(n) : n \in {"-9223372036854775808", "-3", "0", "5", "9223372036854775807"}}
      \cup {Int64V(n) : n \in {"-9223372036854775808", "-3", "0", "5", "9223372036854775807"}}
      \cup {Uint64V(n) : n \in {"0", "5", "9223372036854775807", "9223372036854775808",
                                "18446744073709551615"}}

\* How an input is made: from a scalar, or from an output of an operation.
InputSources ==
    {[static |-> TRUE, value |-> v, id |-> "", output |-> ""] : v \in ScalarValues}
      \cup {[static |-> FALSE, value |-> NilV, id |-> x, output |-> k] :
                x \in {"a", "b", "ghost"}, k \in {"result", testSetResult}}

\* NewInputFromValue(v) or NewInputFromDep(id, output) is called.
MakeInput ==
    /\ probe = <<>>
    /\ \E s \in InputSources :
          probe' = <<[from |-> s,
                      input |-> IF s.static THEN NewInputFromValue(s.value)
                                ELSE NewInputFromDep(s.id, s.output)]>>
    /\ UNCHANGED <<runVars, mctx, outLog, receiver, ctx, regVars, concVars, unitVars,
                   validateVars, k8sVars>>

\* What the accessor fn of input m returns.
read(m, fn) ==
    CASE fn = "Auto" -> Auto(m)
      [] fn = "String" -> [val |-> StrV(String(m)), err |-> nil]
      [] fn = "Bool" -> [val |-> BoolV(Bool(m)), err |-> nil]
      [] fn = "Number" -> [val |-> Number(m), err |-> nil]
      [] fn = "Float" -> [val |-> Float(m), err |-> nil]
      [] OTHER -> [val |-> Any(m), err |-> nil]

\* One accessor of the input is called.
ReadInput ==
    /\ Len(probe) = 1
    /\ "input" \in DOMAIN probe[1]
    /\ \E fn \in {"Auto", "String", "Bool", "Number", "Float", "Any"} :
          probe' = Append(probe, [fn |-> fn, got |-> read(probe[1].input, fn)])
    /\ UNCHANGED <<runVars, mctx, outLog, receiver, ctx, regVars, concVars, unitVars,
                   validateVars, k8sVars>>

NextInputs == MakeInput \/ ReadInput

SpecInputs == InitIdle /\ [][NextInputs]_vars

-----------------------------------------------------------------------------
(* The Kubernetes runner: runWorkflowsInK8s *)

\* The configured namespaces with the workflows each holds; listing the
\* namespace `fails` returns an error.
Clusters ==
    {[namespaces |-> n,
      holds |-> [x \in {"ns1", "ns2"} |-> IF x = "ns1" THEN h1 ELSE h2],
      fails |-> f] :
        n \in {<<"ns1">>, <<"ns1", "ns2">>, <<"ns2", "ns1">>},
        h1 \in {<<>>, <<"w1">>, <<"w1", "w2">>},
        h2 \in {<<>>, <<"w3">>},
        f \in {"", "ns2"}}

WorkflowNames == {"w1", "w2", "w3"}

\* runWorkflowsInK8s is called.
StartRunner ==
    /\ k8s.pc = "idle"
    /\ \E c \in Clusters :
          k8s' = [pc |-> "load", cluster |-> c, ns |-> 1, workflows |-> <<>>,
                  g |-> EmptyMap, runs |-> [w \in WorkflowNames |-> 0],
                  statusUpdates |-> [w \in WorkflowNames |-> 0],
                  wfErrors |-> <<>>, err |-> nil]
    /\ UNCHANGED <<runVars, mctx, outLog, receiver, ctx, regVars, concVars, unitVars,
                   probeVars, validateVars>>

\* Lines 130-149: one iteration of the loop over the namespaces. A load error
\* is returned wrapped (133-136); a namespace without workflows makes the
\* function warn, set err = nil and return (138-147); otherwise the workflows
\* are appended to the ones to run (148).
LoadNamespace ==
    /\ k8s.pc = "load"
    /\ k8s.ns <= Len(k8s.cluster.namespaces)
    /\ LET ns == k8s.cluster.namespaces[k8s.ns]
           nsWorkflows == k8s.cluster.holds[ns] IN
       k8s' = IF ns = k8s.cluster.fails
              THEN [k8s EXCEPT !.pc = "returned",
                               !.err = <<"error loading workflows from Kubernetes", ns>>]
              ELSE IF Len(nsWorkflows) = 0
              THEN [k8s EXCEPT !.pc = "returned", !.err = nil]
              ELSE [k8s EXCEPT !.workflows = @ \o nsWorkflows, !.ns = @ + 1]
    /\ UNCHANGED <<runVars, mctx, outLog, receiver, ctx, regVars, concVars, unitVars,
                   probeVars, validateVars>>

\* Lines 151-162: wg.Add(1) and a goroutine for every workflow loaded.
StartGoroutines ==
    /\ k8s.pc = "load"
    /\ k8s.ns > Len(k8s.cluster.namespaces)
    /\ k8s' = [k8s EXCEPT
                 !.pc = "wait",
                 !.g = [w \in {k8s.workflows[i] : i \in 1..Len(k8s.workflows)} |->
                          [pc |-> "run", wErr |-> nil, seen |-> <<>>]]]
    /\ UNCHANGED <<runVars, mctx, outLog, receiver, ctx, regVars, concVars, unitVars,
                   probeVars, validateVars>>

\* Lines 156-158 and runWorkflowInK8s (172-204): the goroutine of workflow w runs it and
\* attempts the status update, whose error is what the call returns; without
\* an error the goroutine ends (wg.Done).
RunWorkflowInK8s ==
    /\ k8s.pc = "wait"
    /\ \E w \in DOMAIN k8s.g, wErr \in {nil, <<"error updating workflow status", "x">>} :
          /\ k8s.g[w].pc = "run"
          /\ k8s' = [k8s EXCEPT
                       !.runs[w] = @ + 1,
                       !.statusUpdates[w] = @ + 1,
                       !.g[w] = [pc |-> IF wErr = nil THEN "done" ELSE "read",
                                 wErr |-> IF wErr = nil THEN nil
                                          ELSE <<wErr[1], w>>,
                                 seen |-> <<>>]]
    /\ UNCHANGED <<runVars, mctx, outLog, receiver, ctx, regVars, concVars, unitVars,
                   probeVars, validateVars>>

\* Line 159, wfErrors = append(wfErrors, wErr), is a read of the slice and a
\* store of the slice read with wErr added. No lock guards wfErrors, so the
\* goroutines interleave between the two.
\* The read of wfErrors by the goroutine of workflow w.
ReadErrors ==
    /\ k8s.pc = "wait"
    /\ \E w \in DOMAIN k8s.g :
          /\ k8s.g[w].pc = "read"
          /\ k8s' = [k8s EXCEPT !.g[w].pc = "write", !.g[w].seen = k8s.wfErrors]
    /\ UNCHANGED <<runVars, mctx, outLog, receiver, ctx, regVars, concVars, unitVars,
                   probeVars, validateVars>>

\* The store to wfErrors, which overwrites what other goroutines stored since
\* the read; the goroutine ends (wg.Done).
WriteErrors ==
    /\ k8s.pc = "wait"
    /\ \E w \in DOMAIN k8s.g :
          /\ k8s.g[w].pc = "write"
          /\ k8s' = [k8s EXCEPT
                       !.g[w].pc = "done",
                       !.wfErrors = Append(k8s.g[w].seen, k8s.g[w].wErr)]
    /\ UNCHANGED <<runVars, mctx, outLog, receiver, ctx, regVars, concVars, unitVars,
                   probeVars, validateVars>>

\* Lines 163-168: wg.Wait() returns once every goroutine has ended.
ReturnFromRunner ==
    /\ k8s.pc = "wait"
    /\ \A w \in DOMAIN k8s.g : k8s.g[w].pc = "done"
    /\ k8s' = [k8s EXCEPT
                 !.pc = "returned",
                 !.err = IF Len(k8s.wfErrors) > 0
                         THEN <<"errors running workflows">> \o k8s.wfErrors
                         ELSE nil]
    /\ UNCHANGED <<runVars, mctx, outLog, receiver, ctx, regVars, concVars, unitVars,
                   probeVars, validateVars>>

NextK8s ==
    StartRunner \/ LoadNamespace \/ StartGoroutines \/ RunWorkflowInK8s
        \/ ReadErrors \/ WriteErrors \/ ReturnFromRunner

SpecK8s == InitIdle /\ [][NextK8s]_vars

-----------------------------------------------------------------------------
(* Vocabulary of the properties *)

OpIdSet == {ops[i].Id : i \in 1..Len(ops)}

Elems(seq) == {seq[i] : i \in 1..Len(seq)}

\* The operations x depends on explicitly.
Succ(x) == UNION {Elems(ops[i].DependsOn) : i \in {j \in 1..Len(ops) : ops[j].Id = x}}

RECURSIVE ReachableFrom(_)
ReachableFrom(S) ==
    LET S1 == S \cup UNION {Succ(x) : x \in S} IN
    IF S1 = S THEN S ELSE ReachableFrom(S1)

OnCycle(x) == x \in ReachableFrom(Succ(x))

HasCycle == \E x \in OpIdSet : OnCycle(x)

AllDepsExist == \A x \in OpIdSet : Succ(x) \subseteq OpIdSet

Wraps(err, target) == \E i \in 1..Len(err) : err[i] = target

\* A module call that left its operation complete.
Succeeded(c) == (c.fn = "Check" /\ c.ok) \/ (c.fn = "Set" /\ c.err = nil)

\* The call after the i-th is Set on the same operation (or is about to be).
SetFollows(i) ==
    IF i < Len(calls)
    THEN calls[i + 1].fn = "Set" /\ calls[i + 1].op = calls[i].op
    ELSE pc = "set" /\ sortedIds[idx] = calls[i].op

NoSetFor(id) == \A j \in 1..Len(calls) : calls[j].op = id => calls[j].fn # "Set"

\* opoSort has returned in this run, with error SortErr (nil: with sortedIds).
SortReturned ==
    /\ pc \notin {"setup", "instantiate", "sort"}
    /\ ~(result.Err # nil /\ result.Err[1] = "unable to instantiate module for operation")

SortErr ==
    IF result.Err # nil /\ result.Err[1] = "unable to sort operations"
    THEN Tail(result.Err) ELSE nil

Pos(order, x) == CHOOSE i \in 1..Len(order) : order[i] = x

IsPermutationOfIds(order) ==
    /\ Len(order) = Cardinality(OpIdSet)
    /\ Elems(order) = OpIdSet

DepsPrecede(order) ==
    \A x \in OpIdSet : \A d \in Succ(x) :
        /\ x \in Elems(order)
        /\ d \in Elems(order)
        /\ Pos(order, d) < Pos(order, x)

-----------------------------------------------------------------------------
(* C1 *)

\* C1: whenever Check of an operation is called, every operation in its
\* explicit DependsOn has completed earlier in the run (its Check returned
\* true or its Set returned nil).
C1_DependenciesCompleteFirst ==
    /\ \A i \in 1..Len(calls) :
          calls[i].fn = "Check" =>
             \A d \in Succ(calls[i].op) :
                \E j \in 1..(i - 1) : calls[j].op = d /\ Succeeded(calls[j])
    /\ pc = "check" => Succ(sortedIds[idx]) \subseteq completed

\* The first declared operation depends on two operations declared after it,
\* and its Check is about to be called.
C1_Witness ==
    /\ pc = "check"
    /\ sortedIds[idx] = ops[1].Id
    /\ Cardinality(Succ(ops[1].Id)) = 2
    /\ Succ(ops[1].Id) \subseteq completed

-----------------------------------------------------------------------------
(* C2 *)

\* C2: an operation that takes an input from the output of an operation of
\* the workflow runs only after that operation has completed, whatever the
\* declaration order; so the run never fails with "dependency operation
\* context not found" for a reference to an operation of the workflow.
C2_ImplicitDependenciesHonoured ==
    /\ pc \in {"check", "set"} =>
          \A k \in DOMAIN operations[sortedIds[idx]].Inputs :
             LET input == operations[sortedIds[idx]].Inputs[k] IN
             ~IsStatic(input) => DependencyId(input) \in completed
    /\ (/\ pc = "done"
        /\ Len(result.Err) = 3
        /\ result.Err[2] = "dependency operation context not found")
         => result.Err[3] \notin OpIdSet

-----------------------------------------------------------------------------
(* C3 *)

\* C3 as claimed: for every operation list without a directed cycle, opoSort
\* returns, without error, a permutation of the operation ids in which every
\* DependsOn entry precedes the operation that lists it.
C3_SortIsPermutation ==
    (SortReturned /\ ~HasCycle) =>
        /\ SortErr = nil
        /\ IsPermutationOfIds(sortedIds)
        /\ DepsPrecede(sortedIds)

\* C3 amended: the same, for operation lists in which every DependsOn entry is
\* the id of an operation of the list.
C3_SortIsPermutationOfClosedList ==
    (SortReturned /\ ~HasCycle /\ AllDepsExist) =>
        /\ SortErr = nil
        /\ IsPermutationOfIds(sortedIds)
        /\ DepsPrecede(sortedIds)

\* An acyclic list, closed under DependsOn, in which an operation has two
\* dependencies and the sorted order is not the declared one.
C3_Witness ==
    /\ SortReturned /\ ~HasCycle /\ AllDepsExist
    /\ \E x \in OpIdSet : Cardinality(Succ(x)) = 2
    /\ sortedIds # [i \in 1..Len(ops) |-> ops[i].Id]

-----------------------------------------------------------------------------
(* C4 *)

\* C4: for every operation list with a directed cycle, opoSort returns no
\* order and an error wrapping ErrOperationCycle, and the run ends without
\* any module call.
C4_CycleRejected ==
    HasCycle =>
        /\ calls = <<>> /\ completed = {} /\ result.CompletedOperations = 0
        /\ pc \notin {"typecheck", "validate", "begin", "check", "set"}
        /\ SortReturned =>
              /\ pc = "done"
              /\ sortedIds = <<>>
              /\ Wraps(SortErr, ErrOperationCycle)

\* The sort has failed on a cycle that has no self-dependency and that the
\* first declared operation is not on but leads to.
C4_Witness ==
    /\ SortReturned /\ pc = "done"
    /\ ~OnCycle(ops[1].Id)
    /\ \E x \in ReachableFrom(Succ(ops[1].Id)) : OnCycle(x)
    /\ \A x \in OpIdSet : x \notin Succ(x)

-----------------------------------------------------------------------------
(* C5 *)

\* The i-th call is a Check that returned without error.
CleanCheck(i) == calls[i].fn = "Check" /\ calls[i].err = nil

\* C5: for an operation whose Check returns without error, Set is invoked if
\* and only if Check returned false. After Check returned true the operation
\* is complete, Set is never called for it, and every output Check published
\* is still in its context and is what a later operation reading it receives.
\* After Check returned false, Set is the next call, and the operation is
\* complete once Set has returned without error.
C5_CheckDecidesSet ==
    /\ \A i \in 1..Len(calls) :
          CleanCheck(i) =>
             IF calls[i].ok
             THEN /\ NoSetFor(calls[i].op)
                  /\ calls[i].op \in completed
                  /\ \A k \in DOMAIN calls[i].out :
                        getOutput(opCtxs[calls[i].op], k)
                            = [val |-> calls[i].out[k], err |-> nil]
             ELSE /\ SetFollows(i)
                  /\ (i < Len(calls) /\ calls[i + 1].err = nil)
                        => calls[i].op \in completed
    /\ pc = "check" =>
          \A k \in DOMAIN operations[sortedIds[idx]].Inputs :
             LET input == operations[sortedIds[idx]].Inputs[k] IN
             \A i \in 1..Len(calls) :
                (/\ ~IsStatic(input)
                 /\ CleanCheck(i) /\ calls[i].ok
                 /\ calls[i].op = DependencyId(input)
                 /\ OutputKey(input) \in DOMAIN calls[i].out)
                  => opCtxs[sortedIds[idx]].inputValues[k]
                        = NewInputFromValue(calls[i].out[OutputKey(input)])

\* One operation went through Set after a clean Check returned false and is
\* complete; another one's clean Check returned true; and the operation about
\* to be checked reads an output that Check published.
C5_Witness ==
    /\ pc = "check"
    /\ \E i \in 1..Len(calls) :
          /\ CleanCheck(i) /\ ~calls[i].ok
          /\ calls[i].op \in completed
    /\ \E i \in 1..Len(calls) :
          /\ CleanCheck(i) /\ calls[i].ok
          /\ \E k \in DOMAIN operations[sortedIds[idx]].Inputs :
                LET input == operations[sortedIds[idx]].Inputs[k] IN
                /\ ~IsStatic(input)
                /\ DependencyId(input) = calls[i].op
                /\ OutputKey(input) \in DOMAIN calls[i].out

-----------------------------------------------------------------------------
(* C6 *)

\* The i-th call is a Check that returned an error.
FailedCheck(i) == calls[i].fn = "Check" /\ calls[i].err # nil

-----------------------------------------------------------------------------
(* C7 *)

\* C7: if Set returns an error the run ends at once: the failed Set is the
\* last module call of the run, the operation is not complete, and the result
\* carries Phase = Execute, Op = the failing operation and Err = that error.
C7_SetErrorEndsRun ==
    \A i \in 1..Len(calls) :
       (calls[i].fn = "Set" /\ calls[i].err # nil) =>
          /\ i = Len(calls)
          /\ pc = "done"
          /\ calls[i].op \notin completed
          /\ result.Phase = phaseExecute
          /\ result.Op = calls[i].op
          /\ result.Err = calls[i].err
          /\ result.CompletedOperations = Cardinality(completed)

\* Set has failed for an operation that a later operation of the order depends
\* on, after an earlier operation had completed.
C7_Witness ==
    /\ pc = "done" /\ calls # <<>>
    /\ calls[Len(calls)].fn = "Set" /\ calls[Len(calls)].err # nil
    /\ completed # {}
    /\ \E j \in (idx + 1)..Len(sortedIds) :
          calls[Len(calls)].op \in ReachableFrom(Succ(sortedIds[j]))

-----------------------------------------------------------------------------
(* C8 *)

UnknownModule == \E i \in 1..Len(ops) : ops[i].Module \notin registeredModuleFactories

\* A required input of the module is missing from the i-th operation.
MissingInput(i) ==
    \E n \in DOMAIN Info(ops[i].Module).Inputs :
       Info(ops[i].Module).Inputs[n].Required /\ n \notin DOMAIN ops[i].Inputs

\* The i-th operation gives a declared input a static value of another type.
StaticMismatch(i) ==
    \E n \in DOMAIN Info(ops[i].Module).Inputs \cap DOMAIN ops[i].Inputs :
       /\ IsStatic(ops[i].Inputs[n])
       /\ Any(ops[i].Inputs[n]).t # Info(ops[i].Module).Inputs[n].Type

\* The run has returned an error from a step before the Execute phase.
PreExecutionFailure ==
    pc = "done" /\ result.Err # nil /\ result.Phase # phaseExecute

\* C8: if a pre-execution step fails (an unknown module, a dependency cycle,
\* a missing required input or a static type mismatch, a module's Validate, or
\* any other error returned before the Execute phase), then no Check and no
\* Set is invoked in the run and CompletedOperations is 0.
C8_NothingRunsAfterPreExecutionFailure ==
    /\ (\/ UnknownModule
        \/ HasCycle
        \/ \E i \in 1..Len(ops) : MissingInput(i) \/ StaticMismatch(i))
         => /\ calls = <<>> /\ completed = {} /\ result.CompletedOperations = 0
            /\ pc \notin {"begin", "check", "set"}
    /\ PreExecutionFailure
         => calls = <<>> /\ completed = {} /\ result.CompletedOperations = 0

\* A module's Validate has failed in a workflow in which another operation is
\* not in its desired state and would have needed its Set.
C8_Witness ==
    /\ PreExecutionFailure
    /\ result.Err[1] = "validation failed for operation"
    /\ \E i \in 1..Len(ops) :
          /\ ops[i].Module = "test_module"
          /\ ops[i].Inputs = TestInputs(F, T, FALSE, FALSE)
    /\ calls = <<>>

-----------------------------------------------------------------------------
(* C9 *)

\* C9 as claimed: when an operation supplies a static value whose type is
\* not assignable to the declared type of the input, the run returns a non-nil
\* error, Phase = Validate and Op = that operation, and Set is never called.
C9_TypeMismatchNamesOperation ==
    \A i \in 1..Len(ops) :
       StaticMismatch(i) =>
          /\ \A j \in 1..Len(calls) : calls[j].fn # "Set"
          /\ pc = "done" =>
                /\ result.Err # nil
                /\ result.Phase = phaseValidate
                /\ result.Op = ops[i].Id

\* No operation other than the i-th stops the run before or in the
\* type-compatibility pass.
OnlyDefect(i) ==
    /\ ~UnknownModule /\ ~HasCycle /\ AllDepsExist
    /\ \A j \in 1..Len(ops) :
          j # i => checkInputsOutputs(ops[j], Info(ops[j].Module), moduleInfo) = {}

\* C9 amended: when an operation supplies a static value whose type is not
\* assignable to the declared type of the input, the run returns a non-nil
\* error and neither Check nor Set is ever called; when that operation is the
\* only defective one of the workflow, the result has Phase = Validate and
\* Op = that operation.
C9_TypeMismatchStopsRun ==
    \A i \in 1..Len(ops) :
       StaticMismatch(i) =>
          /\ calls = <<>>
          /\ pc = "done" =>
                /\ result.Err # nil
                /\ OnlyDefect(i) =>
                      /\ result.Phase = phaseValidate
                      /\ result.Op = ops[i].Id

\* The run has ended on the type mismatch of the first operation of the
\* sorted order, the only defective one; another operation is not in its
\* desired state and would have needed its Set.
C9_Witness ==
    /\ pc = "done"
    /\ \E i \in 1..Len(ops) :
          /\ StaticMismatch(i) /\ OnlyDefect(i)
          /\ result.Op = ops[i].Id
          /\ sortedIds # <<>> /\ sortedIds[1] = ops[i].Id
          /\ \E j \in 1..Len(ops) :
                j # i /\ ops[j].Inputs = TestInputs(F, T, FALSE, FALSE)

-----------------------------------------------------------------------------
(* C10 *)

\* The Output calls on key k made before the i-th one.
EarlierWrites(i, k) == {j \in 1..(i - 1) : outLog[j].key = k}

\* C10: after any sequence of Output calls on a module context, the stored
\* keys are the keys written, the value stored for a key is the value of the
\* first Output call on that key, and a call returns an error exactly when an
\* earlier call had the same key (it then changes nothing).
C10_FirstWriteWins ==
    /\ DOMAIN mctx.outputValues = {outLog[i].key : i \in 1..Len(outLog)}
    /\ \A i \in 1..Len(outLog) :
          /\ (outLog[i].err # nil) <=> (EarlierWrites(i, outLog[i].key) # {})
          /\ EarlierWrites(i, outLog[i].key) = {}
                => mctx.outputValues[outLog[i].key] = outLog[i].value

\* A second Output call on a key, with another value, has returned an error;
\* the first value is stored, and so is the value of another key written
\* between the two calls.
C10_Witness ==
    \E i, j, m \in 1..Len(outLog) :
       /\ i < m /\ m < j
       /\ outLog[i].key = outLog[j].key
       /\ outLog[m].key # outLog[i].key
       /\ outLog[i].value # outLog[j].value
       /\ outLog[j].err # nil
       /\ mctx.outputValues[outLog[i].key] = outLog[i].value
       /\ mctx.outputValues[outLog[m].key] = outLog[m].value

-----------------------------------------------------------------------------
(* C11 *)

\* Integers of every width are one kind of value.
ValueKind(x) == IF x.t \in {"int", "int64", "uint64"} THEN "integer" ELSE x.t

\* x and y are the same value, whatever the width of an integer.
SameValue(x, y) == ValueKind(x) = ValueKind(y) /\ x.v = y.v

\* Operation id has been given the output of its dependency for input k.
Wired(id, k) ==
    /\ id \in DOMAIN opCtxs
    /\ k \in DOMAIN opCtxs[id].inputValues
    /\ ~IsStatic(operations[id].Inputs[k])
    /\ DependencyId(operations[id].Inputs[k]) \in DOMAIN opCtxs

\* The value the dependency of input k of operation id has published for it.
Published(id, k) ==
    opCtxs[DependencyId(operations[id].Inputs[k])]
        .outputValues[OutputKey(operations[id].Inputs[k])]

\* C11: when input I of operation B refers to output K of operation A and A
\* has published K with value v, what B's module reads through Input(I) is v,
\* with the accessor Any() and with the accessor Auto(), for every kind of v;
\* so the test module, which reads input_0 with Auto(), publishes v as output_0.
C11_DependencyValueArrives ==
    \A id \in DOMAIN operations : \A k \in DOMAIN operations[id].Inputs :
       Wired(id, k) =>
          LET r == Input(opCtxs[id], k) IN
          /\ r.err = nil
          /\ Any(r.in) = Published(id, k)
          /\ Auto(r.in).err = nil
          /\ SameValue(Auto(r.in).val, Published(id, k))
          /\ \A i \in 1..Len(calls) :
                (calls[i].op = id /\ k = InputName(0)
                    /\ OutputName(0) \in DOMAIN calls[i].out)
                  => SameValue(calls[i].out[OutputName(0)], Published(id, k))

-----------------------------------------------------------------------------
(* C12 *)

\* Input n, declared by the module of operation id, has a default to fall
\* back on: it is optional or its default is not nil.
Defaulted(id, n) ==
    \/ ~Info(operations[id].Module).Inputs[n].Required
    \/ Info(operations[id].Module).Inputs[n].Default # NilV

\* The module of operation id has been or is about to be called.
ModuleReached(id) ==
    \/ \E i \in 1..Len(calls) : calls[i].op = id
    \/ pc \in {"check", "set"} /\ sortedIds[idx] = id

\* C12: for every input the module declares, on the context of the operation:
\* if the operation does not supply it and it is optional or has a default,
\* Input(key) succeeds and holds the declared default (nil when there is
\* none); if the operation supplies a static value, Input(key) holds that
\* value; if it supplies a dependency reference, the module reads the
\* dependency's output. A supplied value is never replaced by the default.
C12_DefaultsFillMissingInputs ==
    \A id \in DOMAIN opCtxs : \A n \in DOMAIN Info(operations[id].Module).Inputs :
       IF n \notin DOMAIN operations[id].Inputs
       THEN Defaulted(id, n) =>
               Input(opCtxs[id], n)
                  = [in |-> NewInputFromValue(Info(operations[id].Module).Inputs[n].Default),
                     err |-> nil]
       ELSE IF IsStatic(operations[id].Inputs[n])
       THEN Input(opCtxs[id], n) = [in |-> operations[id].Inputs[n], err |-> nil]
       ELSE ModuleReached(id) =>
               Input(opCtxs[id], n)
                  = [in |-> NewInputFromValue(Published(id, n)), err |-> nil]

\* The operation about to be checked supplies check_error = true, which
\* differs from the default, and leaves set_error to its default; an
\* ext_module operation has run with its optional input left unset.
C12_Witness ==
    /\ pc = "check"
    /\ LET id == sortedIds[idx] IN
       /\ testCheckError \in DOMAIN operations[id].Inputs
       /\ Bool(Input(opCtxs[id], testCheckError).in)
       /\ testSetError \notin DOMAIN operations[id].Inputs
       /\ Input(opCtxs[id], testSetError) = [in |-> NewInputFromValue(F), err |-> nil]
    /\ \E x \in DOMAIN opCtxs :
          /\ operations[x].Module = "ext_module"
          /\ Input(opCtxs[x], "note") = [in |-> NewInputFromValue(NilV), err |-> nil]

-----------------------------------------------------------------------------
(* C13 *)

\* C13: after setup() has returned, the dependency id of every dependency
\* reference among the inputs of the operation is in its DependsOn list, and
\* every id that was in DependsOn before the call is still there.
C13_SetupAddsImplicitDependencies ==
    receiver # <<>> =>
        /\ \A k \in DOMAIN receiver[1].Inputs :
              ~IsStatic(receiver[1].Inputs[k])
                 => Contains(receiver[1].DependsOn, DependencyId(receiver[1].Inputs[k]))
        /\ \A i \in 1..Len(ops[1].DependsOn) :
              Contains(receiver[1].DependsOn, ops[1].DependsOn[i])
        /\ receiver[1].Inputs = ops[1].Inputs

\* setup() has returned on an operation with two explicit dependencies and
\* two references, one to an operation already in DependsOn and one to another.
C13_Witness ==
    /\ receiver # <<>>
    /\ Len(ops[1].DependsOn) = 2
    /\ Len(receiver[1].DependsOn) = 3
    /\ \E k \in DOMAIN ops[1].Inputs :
          /\ ~IsStatic(ops[1].Inputs[k])
          /\ Contains(ops[1].DependsOn, DependencyId(ops[1].Inputs[k]))
    /\ \E k \in DOMAIN ops[1].Inputs :
          /\ ~IsStatic(ops[1].Inputs[k])
          /\ ~Contains(ops[1].DependsOn, DependencyId(ops[1].Inputs[k]))

-----------------------------------------------------------------------------
(* C14 *)

\* The i-th call is the Check of a tainted operation.
TaintedCheck(i) == calls[i].fn = "Check" /\ operations[calls[i].op].Tainted

-----------------------------------------------------------------------------
(* C15 *)

\* C15: once the context passed to Run has been cancelled, no Check or Set is
\* called for an operation that had not begun by then, and the run ends with
\* Phase = Execute and the cancellation error as Err.
C15_CancellationStopsRun ==
    ctx.err # nil =>
        /\ \A i \in 1..Len(calls) : calls[i].op \in ctx.begun
        /\ pc = "done" =>
              /\ result.Phase = phaseExecute
              /\ Wraps(result.Err, Canceled[1])

-----------------------------------------------------------------------------
(* C16 *)

\* The factory first registered for module id m.
FirstFactory(m) ==
    IF m \in DOMAIN initialRegistry THEN initialRegistry[m]
    ELSE regLog[CHOOSE i \in 1..Len(regLog) :
                   /\ regLog[i].module = m
                   /\ \A j \in 1..(i - 1) : regLog[j].module # m].factory

\* C16: RegisterModule panics when the module id is already registered, and
\* the factory registered first for an id is never replaced.
C16_ReRegistrationPanics ==
    /\ \A i \in 1..Len(regLog) :
          regLog[i].module \in DOMAIN regLog[i].before => regLog[i].panic
    /\ \A m \in DOMAIN registry : registry[m] = FirstFactory(m)

-----------------------------------------------------------------------------
(* C17 *)

\* The execution of the first workflow in the concurrent phase, with the
\* content of its opCtxs map.
FirstRun ==
    IF we.w = 1 THEN [pc |-> pc, result |-> result, calls |-> calls, opCtxs |-> opCtxs]
    ELSE [pc |-> parked[1].pc, result |-> parked[1].result, calls |-> parked[1].calls,
          opCtxs |-> heap[parked[1].we.opCtxs]]

\* C17: runs of several workflows at the same time do not interfere: however
\* the steps of a second run are interleaved with it, the run of a workflow
\* ends with the result, the Check and Set calls and the operation contexts
\* of its run alone.
C17_ConcurrentRunsDoNotInterfere ==
    (alone # <<>> /\ FirstRun.pc = "done") =>
        /\ FirstRun.result = alone[1].result
        /\ FirstRun.calls = alone[1].calls
        /\ FirstRun.opCtxs = alone[1].opCtxs

\* The first run has ended with both operations complete while the run of a
\* different workflow is between the Begin and the Check of its operation b.
C17_Witness ==
    /\ alone # <<>>
    /\ we.w = 1
    /\ pc = "done"
    /\ result.CompletedOperations = 2
    /\ parked[1].ops # ops
    /\ parked[1].pc = "check"
    /\ parked[1].idx = 2

-----------------------------------------------------------------------------
(* C18 *)

\* C18: a Run of a workflow value that was run before starts with no operation
\* contexts; it calls Check for every operation it reaches, whatever the
\* earlier run completed; it ends with the result, the calls and the outputs of
\* the first run (test_module behaves the same in both); and every module
\* call of the second run has the outcome and leaves the outputs of the same
\* call of the first, so no Output is refused for a key written in the first.
C18_RunsAreStateless ==
    alone # <<>> =>
        /\ pc \in {"setup", "instantiate", "sort", "typecheck", "validate"} =>
              opCtxs = EmptyMap
        /\ pc = "done" =>
              /\ result = alone[1].result
              /\ calls = alone[1].calls
              /\ opCtxs = alone[1].opCtxs
              /\ \A id \in DOMAIN opCtxs :
                    ~(result.Op = id /\ Contains(result.Err, "error setting up context")) =>
                        \E i \in 1..Len(calls) : calls[i].fn = "Check" /\ calls[i].op = id
        /\ Len(calls) <= Len(alone[1].calls)
        /\ \A i \in 1..Len(calls) : calls[i] = alone[1].calls[i]

\* The second run has ended; the first had completed operation a and written
\* its set_result output, and failed in the Set of b.
C18_Witness ==
    /\ alone # <<>>
    /\ pc = "done"
    /\ alone[1].result.CompletedOperations = 1
    /\ alone[1].result.Err # nil
    /\ "a" \in DOMAIN alone[1].opCtxs
    /\ testSetResult \in DOMAIN alone[1].opCtxs["a"].outputValues
    /\ Len(calls) = 3

-----------------------------------------------------------------------------
(* C19 *)

\* C19: within one run no module call is repeated and the operations do not
\* overlap: an operation has at most one Check and at most one Set, a Set
\* comes directly after the Check of its own operation, and the calls of one
\* operation are not separated by a call of another.
C19_NoRetriesNoOverlap ==
    \A i \in 1..Len(calls) :
        /\ \A j \in 1..Len(calls) :
              (calls[j].op = calls[i].op /\ calls[j].fn = calls[i].fn) => j = i
        /\ calls[i].fn = "Set" =>
              /\ i > 1
              /\ calls[i - 1].fn = "Check"
              /\ calls[i - 1].op = calls[i].op
        /\ \A j \in (i + 1)..Len(calls) :
              calls[j].op = calls[i].op =>
                  \A k \in i..j : calls[k].op = calls[i].op

\* A run has ended without error after the Check and the Set of one operation
\* and the Check and the Set of another.
C19_Witness ==
    /\ pc = "done"
    /\ result.Err = nil
    /\ \E i \in 1..Len(calls), j \in 1..Len(calls) :
          /\ i + 1 < j
          /\ calls[i].fn = "Set"
          /\ calls[j].fn = "Set"

-----------------------------------------------------------------------------
(* C20 *)

\* The operations whose Check returned true or whose Set returned no error.
CompletedByModule ==
    {id \in OpIdSet : \E i \in 1..Len(calls) : calls[i].op = id /\ Succeeded(calls[i])}

-----------------------------------------------------------------------------
(* C21 *)

\* C21: when Set of a built-in module that declares outputs returns nil for an
\* operation without DoesNotExist, every output key the module declares is in
\* the outputs of the operation's context.
C21_SetPublishesDeclaredOutputs ==
    (unit.pc = "set returned nil" /\ unit.module \in ResourceModules /\ ~mctx.dne) =>
        builtinOutputs(unit.module) \subseteq DOMAIN mctx.outputValues

-----------------------------------------------------------------------------
(* C22 *)

\* C22: for the two value modules with DoesNotExist, Check returns true
\* exactly when the key is absent from the data, and after a Set that returned
\* nil the key is absent, whatever Tainted is and whether the key was there.
C22_DoesNotExistRemovesKey ==
    (unit.module \in ValueModules /\ mctx.dne) =>
        /\ unit.pc \in {"set", "done"} => (unit.check <=> unit.before = "absent")
        /\ unit.pc = "set returned nil" => unit.world = "absent"

-----------------------------------------------------------------------------
(* C23 *)

\* The inputs the module of the i-th operation requires and the operation
\* does not supply.
MissingRequired(i) ==
    {n \in DOMAIN Info(ops[i].Module).Inputs :
        Info(ops[i].Module).Inputs[n].Required /\ n \notin DOMAIN ops[i].Inputs}

\* The inputs the module of the i-th operation declares optional and the
\* operation does not supply.
MissingOptional(i) ==
    {n \in DOMAIN Info(ops[i].Module).Inputs :
        ~Info(ops[i].Module).Inputs[n].Required /\ n \notin DOMAIN ops[i].Inputs}

\* The type-compatibility pass finds nothing wrong with a missing optional input.
OptionalNeverFails ==
    \A i \in 1..Len(ops) : \A n \in MissingOptional(i) :
        inputError(ops[i], n, Info(ops[i].Module).Inputs[n], moduleInfo) = nil

\* C23 as claimed: when an operation supplies nothing for an input its module
\* requires, the run ends in the Validate phase with the missing required
\* input error naming that input and that operation; and a missing optional
\* input never fails the type-compatibility pass.
C23_MissingRequiredInputNamed ==
    /\ \A i \in 1..Len(ops) : \A n \in MissingRequired(i) :
          pc = "done" =>
              /\ result.Phase = phaseValidate
              /\ result.Err = <<"missing required input", n, ops[i].Id>>
    /\ OptionalNeverFails

\* C23 amended: when an operation supplies nothing for an input its module
\* requires, the run ends with an error and no Check or Set is ever called;
\* when that operation is the only defective one and what it does supply has
\* the declared types, the run ends in the Validate phase, on that operation,
\* with the missing required input error naming it and a missing input; and a
\* missing optional input never fails the type-compatibility pass.
C23_MissingRequiredInputStopsRun ==
    /\ \A i \in 1..Len(ops) :
          MissingRequired(i) # {} =>
              /\ calls = <<>>
              /\ pc = "done" =>
                    /\ result.Err # nil
                    /\ (OnlyDefect(i) /\ ~StaticMismatch(i)) =>
                          /\ result.Phase = phaseValidate
                          /\ result.Op = ops[i].Id
                          /\ result.Err \in {<<"missing required input", n, ops[i].Id>> :
                                               n \in MissingRequired(i)}
    /\ OptionalNeverFails

\* The run has ended on the missing required input of the only defective
\* operation, which also leaves out an optional input; another operation is
\* not in its desired state and would have needed its Set.
C23_Witness ==
    /\ pc = "done"
    /\ \E i \in 1..Len(ops) :
          /\ MissingRequired(i) # {} /\ MissingOptional(i) # {}
          /\ OnlyDefect(i)
          /\ result.Op = ops[i].Id
          /\ result.Err[1] = "missing required input"
          /\ \E j \in 1..Len(ops) :
                j # i /\ ops[j].Inputs = TestInputs(F, T, FALSE, FALSE)

-----------------------------------------------------------------------------
(* C24 *)

\* The declared inputs the i-th operation takes from a dependency.
DeclaredRefs(i) ==
    {n \in DOMAIN Info(ops[i].Module).Inputs \cap DOMAIN ops[i].Inputs :
        ~IsStatic(ops[i].Inputs[n])}

\* The reference on input n of the i-th operation names an operation of the
\* workflow and an output its module declares with the type declared for n.
RefOk(i, n) ==
    LET A == DependencyId(ops[i].Inputs[n])
        K == OutputKey(ops[i].Inputs[n]) IN
    /\ A \in OpIdSet
    /\ K \in DOMAIN Info(operations[A].Module).Outputs
    /\ Info(operations[A].Module).Outputs[K].Type = Info(ops[i].Module).Inputs[n].Type

\* The type-compatibility pass accepts a reference exactly when it is RefOk.
RefPassesIffOk ==
    \A i \in 1..Len(ops) : \A n \in DeclaredRefs(i) :
        inputError(ops[i], n, Info(ops[i].Module).Inputs[n], moduleInfo) = nil
            <=> RefOk(i, n)

\* C24 as claimed: a dependency reference (A, K) on a declared input passes
\* the type-compatibility pass only if A is an operation of the workflow, K is
\* an output A's module declares and its type is the declared input type; in
\* every other case the run fails in the Validate phase before any module
\* executes.
C24_BadReferenceFailsInValidate ==
    /\ RefPassesIffOk
    /\ \A i \in 1..Len(ops) : \A n \in DeclaredRefs(i) :
          ~RefOk(i, n) =>
              /\ calls = <<>>
              /\ pc = "done" => (result.Err # nil /\ result.Phase = phaseValidate)

\* C24 amended: the same, except that the run fails in the Validate phase
\* when every module is registered and the explicit dependencies are acyclic,
\* and in the Setup phase otherwise.
C24_BadReferenceFailsBeforeExecute ==
    /\ RefPassesIffOk
    /\ \A i \in 1..Len(ops) : \A n \in DeclaredRefs(i) :
          ~RefOk(i, n) =>
              /\ calls = <<>>
              /\ pc = "done" =>
                    /\ result.Err # nil
                    /\ result.Phase =
                          IF UnknownModule \/ HasCycle THEN phaseSetup ELSE phaseValidate

\* The run has ended in the Validate phase on a reference to an output that
\* operation a's module declares, with another type than the input's, while
\* a is not in its desired state and would have needed its Set.
C24_Witness ==
    /\ pc = "done"
    /\ result.Phase = phaseValidate
    /\ result.Op = "b"
    /\ result.Err[1] = "input does not match expected type from dependency"
    /\ DependencyId(ops[2].Inputs[testCheckError]) = "a"
    /\ calls = <<>>

-----------------------------------------------------------------------------
(* C25 *)

SameOrUnnamedTwin(vt, t) ==
    \/ vt = t
    \/ /\ Underlying(vt) = Underlying(t)
       /\ ~(Named(vt) /\ Named(t))

-----------------------------------------------------------------------------
(* C26 *)

\* The Validate loop has called Validate at least once.
ReachedValidation == validated # EmptyMap

\* The sort and the whole type-compatibility pass succeeded.
SortAndTypePassSucceeded ==
    /\ opoSort(ops).err = nil
    /\ sortedIds = opoSort(ops).order
    /\ \A i \in 1..Len(sortedIds) : ~typeCheckFails(i)

\* C26 as claimed: in every run that reaches module validation, Validate is
\* invoked exactly once for each operation, after the sort and the
\* type-compatibility pass have succeeded, and before the first Check.
C26_EveryOperationValidatedOnce ==
    /\ ReachedValidation =>
          /\ \A id \in OpIdSet : id \in DOMAIN validated /\ validated[id] = 1
          /\ SortAndTypePassSucceeded
    /\ calls # <<>> => DOMAIN validated = OpIdSet

\* C26 amended: in every run that reaches module validation, Validate is
\* invoked at most once for each operation and only after the sort and the
\* type-compatibility pass have succeeded; the loop stops at the first
\* Validate error, so the operation reported with a validation failure was
\* validated and others may not have been; in a run that enters the Execute
\* phase every operation was validated exactly once; and no Validate call
\* happens once a Check has been called.
C26_ValidateOnceUntilFirstError ==
    /\ [](/\ ReachedValidation =>
                /\ \A id \in DOMAIN validated : id \in OpIdSet /\ validated[id] = 1
                /\ SortAndTypePassSucceeded
          /\ (pc = "done" /\ result.Phase = phaseValidate /\ ReachedValidation)
                => result.Err # nil /\ result.Op \in DOMAIN validated
          /\ result.Phase = phaseExecute =>
                \A id \in OpIdSet : id \in DOMAIN validated /\ validated[id] = 1
          /\ calls # <<>> => result.Phase = phaseExecute)
    /\ [][validated' # validated => calls = <<>> /\ calls' = <<>>]_vars

\* A run with an operation of a module whose Validate may fail passed module
\* validation and went on to call Check.
C26_Witness ==
    /\ \E i \in 1..Len(ops) : ops[i].Module = "ext_module"
    /\ DOMAIN validated = OpIdSet
    /\ \A id \in OpIdSet : validated[id] = 1
    /\ calls # <<>>

-----------------------------------------------------------------------------
(* C27 *)

\* Operation i lists a dependency that is no operation of the workflow.
DanglingDependsOn(i) == \E d \in Elems(ops[i].DependsOn) : d \notin OpIdSet

\* Operation i takes the input named k from an operation that is not in the
\* workflow.
DanglingRef(i, k) ==
    /\ k \in DOMAIN ops[i].Inputs
    /\ ~IsStatic(ops[i].Inputs[k])
    /\ DependencyId(ops[i].Inputs[k]) \notin OpIdSet

\* No operation of the workflow is executed, the Execute phase is not entered.
RejectedBeforeExecute ==
    /\ calls = <<>>
    /\ completed = {}
    /\ opCtxs = EmptyMap
    /\ result.Phase # phaseExecute
    /\ pc \notin {"begin", "check", "set"}

\* C27: a workflow in which some operation references an operation id that is
\* not in the workflow, in its DependsOn list or in a DependencyRef input (on a
\* module-declared input or on any other input name), is rejected before the
\* Execute phase: no operation of that workflow is executed.
C27_DanglingReferenceRejected ==
    (\E i \in 1..Len(ops) :
        \/ DanglingDependsOn(i)
        \/ \E k \in DOMAIN ops[i].Inputs : DanglingRef(i, k))
      => RejectedBeforeExecute

-----------------------------------------------------------------------------
(* C28 *)

\* The run has failed.
Failed == result.Err # nil

\* The step the failing run stopped in, told from the error it reports.
FailedIn ==
    CASE Head(result.Err) = "unable to instantiate module for operation" -> "instantiate"
      [] Head(result.Err) = "unable to sort operations" -> "sort"
      [] Head(result.Err) = "unable to find module info for operation" -> "module info"
      [] Head(result.Err) \in {"missing required input",
                               "static input is not assignable to expected type",
                               "dependency operation not found",
                               "output from dependency operation not found",
                               "input does not match expected type from dependency"}
            -> "type pass"
      [] Head(result.Err) = "validation failed for operation" -> "module validate"
      [] Head(result.Err) = "error setting up context" -> "context wiring"
      [] OTHER -> "check then set"

\* The position of operation id in the declared list.
Declared(id) == CHOOSE i \in 1..Len(ops) : ops[i].Id = id

\* C28: every failing run stops at the first failure and reports the phase it
\* stopped in: Setup for module instantiation and sorting, Validate for the
\* type-compatibility pass and module Validate, Execute for context wiring and
\* Check-then-Set; Op is the operation that was being processed whenever the
\* failing step was processing a single operation of the workflow.
C28_FailureReportsPhaseAndOperation ==
    /\ Failed =>
          /\ pc = "done"
          /\ result.Phase =
                CASE FailedIn \in {"instantiate", "sort"} -> phaseSetup
                  [] FailedIn \in {"module info", "type pass", "module validate"}
                        -> phaseValidate
                  [] OTHER -> phaseExecute
          /\ FailedIn = "instantiate" =>
                /\ result.Op \in OpIdSet
                /\ NewModule(ops[Declared(result.Op)]) # nil
                /\ \A j \in 1..(Declared(result.Op) - 1) : NewModule(ops[j]) = nil
                /\ calls = <<>>
          /\ FailedIn = "sort" => result.Op = NoOp /\ calls = <<>>
          /\ FailedIn = "type pass" =>
                /\ result.Op \in OpIdSet
                /\ result.Err \in checkInputsOutputs(operations[result.Op],
                                                     moduleInfo[result.Op], moduleInfo)
                /\ \E i \in 1..Len(sortedIds) :
                      /\ sortedIds[i] = result.Op
                      /\ \A j \in 1..(i - 1) : ~typeCheckFails(j)
                /\ calls = <<>>
          /\ FailedIn = "module validate" =>
                /\ result.Op \in OpIdSet
                /\ result.Op = result.Err[2]
                /\ <<"invalid operation">> \in ModuleValidate(operations[result.Op])
                /\ calls = <<>>
          /\ FailedIn \in {"context wiring", "check then set"} =>
                /\ result.Op = sortedIds[idx]
                /\ completed = {sortedIds[j] : j \in 1..(idx - 1)}
                /\ result.CompletedOperations = idx - 1
          /\ FailedIn = "context wiring" =>
                \A i \in 1..Len(calls) : calls[i].op # result.Op
          /\ FailedIn = "check then set" =>
                /\ calls[Len(calls)] .fn = "Set"
                /\ calls[Len(calls)].op = result.Op
                /\ calls[Len(calls)].err = result.Err
    /\ \A i \in 1..Len(calls) :
          (calls[i].fn = "Set" /\ calls[i].err # nil) =>
              /\ i = Len(calls)
              /\ Failed
              /\ FailedIn = "check then set"

\* A run failed in the Set of its second operation after the first completed.
C28_Witness ==
    /\ Failed
    /\ FailedIn = "check then set"
    /\ result.Phase = phaseExecute
    /\ idx = 2
    /\ result.Op = sortedIds[2]
    /\ completed = {sortedIds[1]}

-----------------------------------------------------------------------------
(* C29 *)

\* opoSort has failed with the cycle error.
CycleReported == SortReturned /\ Wraps(SortErr, ErrOperationCycle)

\* The operation id the cycle error names.
CycleNamed == SortErr[2]

\* C29: whenever opoSort fails with the cycle error, the id named in the
\* error is an operation on a directed cycle of the dependency graph; when the
\* only cycle is a self-dependency, it is the self-dependent operation.
C29_CycleErrorNamesOperationOnCycle ==
    CycleReported =>
        /\ Len(SortErr) = 3
        /\ CycleNamed \in OpIdSet
        /\ OnCycle(CycleNamed)
        /\ (\E x \in OpIdSet : x \in Succ(x) /\ \A y \in OpIdSet : OnCycle(y) => y = x)
              => CycleNamed \in Succ(CycleNamed)

\* The sort failed on a cycle of two operations, neither declared first, that
\* the first operation depends on.
C29_Witness ==
    /\ CycleReported
    /\ CycleNamed # ops[1].Id
    /\ CycleNamed \notin Succ(CycleNamed)
    /\ ~OnCycle(ops[1].Id)
    /\ Succ(ops[1].Id) # {}

-----------------------------------------------------------------------------
(* C30 *)

\* The DependsOn list of the operation with id x (empty for an id that is no
\* operation).
DependsOnOf(x) ==
    IF x \in OpIdSet THEN ops[CHOOSE i \in 1..Len(ops) : ops[i].Id = x].DependsOn
    ELSE <<>>

RECURSIVE PostOrderVisit(_, _)
\* Depth-first post-order of an acyclic graph: the ids of todo are visited in
\* order; an id not yet placed is placed after everything its DependsOn list,
\* visited in order, places.
PostOrderVisit(todo, placed) ==
    IF todo = <<>> THEN placed
    ELSE IF Head(todo) \in Elems(placed) THEN PostOrderVisit(Tail(todo), placed)
    ELSE PostOrderVisit(Tail(todo),
                        Append(PostOrderVisit(DependsOnOf(Head(todo)), placed), Head(todo)))

PostOrder == PostOrderVisit([i \in 1..Len(ops) |-> ops[i].Id], <<>>)

\* The list [test0; test1 deps test0, test3; test2; test3 deps test2].
IsSort6 ==
    /\ Len(ops) = 4
    /\ [i \in 1..4 |-> ops[i].Id] = <<"test0", "test1", "test2", "test3">>
    /\ [i \in 1..4 |-> ops[i].DependsOn] = <<<<>>, <<"test0", "test3">>, <<>>, <<"test2">>>>

-----------------------------------------------------------------------------
(* C31 *)

\* The operation ids the inputs of the operation refer to.
ReferencedIds ==
    {DependencyId(ops[1].Inputs[k]) :
        k \in {n \in DOMAIN ops[1].Inputs : ~IsStatic(ops[1].Inputs[n])}}

\* C31: setup is idempotent and order-insensitive: whatever the order in which
\* the inputs are walked, DependsOn holds after the call the ids it held before
\* and the referenced ids, each referenced id that was missing appended once
\* (also when two inputs refer to the same operation); a second call leaves
\* the operation as the first call left it.
C31_SetupIdempotentOrderInsensitive ==
    /\ Len(receiver) >= 1 =>
          /\ Elems(receiver[1].DependsOn) = Elems(ops[1].DependsOn) \cup ReferencedIds
          /\ Len(receiver[1].DependsOn) =
                Len(ops[1].DependsOn)
                    + Cardinality(ReferencedIds \ Elems(ops[1].DependsOn))
          /\ SubSeq(receiver[1].DependsOn, 1, Len(ops[1].DependsOn)) = ops[1].DependsOn
    /\ Len(receiver) >= 2 => receiver[2] = receiver[1]

\* setup was called twice on an operation whose two inputs refer to the same
\* operation, which DependsOn did not hold.
C31_Witness ==
    /\ Len(receiver) = 2
    /\ InputName(0) \in DOMAIN ops[1].Inputs
    /\ InputName(1) \in DOMAIN ops[1].Inputs
    /\ ~IsStatic(ops[1].Inputs[InputName(0)])
    /\ ops[1].Inputs[InputName(0)] = ops[1].Inputs[InputName(1)]
    /\ DependencyId(ops[1].Inputs[InputName(0)]) \notin Elems(ops[1].DependsOn)
    /\ Len(receiver[2].DependsOn) = Len(ops[1].DependsOn) + 1

-----------------------------------------------------------------------------
(* C32 *)

\* The module of operation id is being called or has been called in this run.
Executing(id) ==
    \/ pc \in {"check", "set"} /\ sortedIds[idx] = id
    \/ \E i \in 1..Len(calls) : calls[i].op = id

\* C32: an input built as a dependency reference is not static before
\* execution and answers DependencyId and OutputKey with the referenced ids;
\* the input the consuming module gets from Input(key) while it is executed is
\* a static value, DependencyId and OutputKey are empty, and its value is the
\* output the dependency published under the referenced key.
C32_ReferenceResolvedForModule ==
    \A i \in 1..Len(ops) : \A k \in DOMAIN ops[i].Inputs :
        LET ref == ops[i].Inputs[k] IN
        ref.hasDep =>
            /\ ref = NewInputFromDep(ref.OperationId, ref.Output)
            /\ ~IsStatic(ref)
            /\ DependencyId(ref) = ref.OperationId
            /\ OutputKey(ref) = ref.Output
            /\ Executing(ops[i].Id) =>
                  LET got == Input(opCtxs[ops[i].Id], k) IN
                  /\ got.err = nil
                  /\ IsStatic(got.in)
                  /\ DependencyId(got.in) = ""
                  /\ OutputKey(got.in) = ""
                  /\ ref.OperationId \in DOMAIN opCtxs
                  /\ ref.Output \in DOMAIN opCtxs[ref.OperationId].outputValues
                  /\ Any(got.in) = opCtxs[ref.OperationId].outputValues[ref.Output]

\* Check of the consumer has been called with input_0 resolved to the text
\* its dependency published.
C32_Witness ==
    /\ Len(ops) = 2
    /\ InputName(0) \in DOMAIN ops[2].Inputs
    /\ ~IsStatic(ops[2].Inputs[InputName(0)])
    /\ \E i \in 1..Len(calls) : calls[i].op = ops[2].Id /\ calls[i].fn = "Check"
    /\ Any(Input(opCtxs[ops[2].Id], InputName(0)).in) = StrV("text")

-----------------------------------------------------------------------------
(* C33 *)

\* Input k of operation i refers to an output that the referenced operation
\* completed without publishing.
UnpublishedRef(i, k) ==
    /\ k \in DOMAIN ops[i].Inputs
    /\ ~IsStatic(ops[i].Inputs[k])
    /\ DependencyId(ops[i].Inputs[k]) \in completed
    /\ OutputKey(ops[i].Inputs[k])
          \notin DOMAIN opCtxs[DependencyId(ops[i].Inputs[k])].outputValues

\* No Check and no Set of operation id was invoked.
NeverCalled(id) == \A j \in 1..Len(calls) : calls[j].op # id

\* The run has failed in the Execute phase wiring the context of operation id,
\* with the operations sorted before it completed and counted.
FailedWiring(id) ==
    /\ result.Err # nil
    /\ Head(result.Err) = "error setting up context"
    /\ result.Phase = phaseExecute
    /\ result.Op = id
    /\ sortedIds[idx] = id
    /\ completed = {sortedIds[j] : j \in 1..(idx - 1)}
    /\ result.CompletedOperations = idx - 1

\* C33 as claimed: if the operation referenced by a dependency reference
\* completed without publishing the referenced output key, the consuming
\* operation's Check and Set are not invoked, and the run fails in the Execute
\* phase with the consuming operation as the reported operation and the
\* operations completed before it counted in CompletedOperations.
C33_MissingOutputFailsAtConsumer ==
    \A i \in 1..Len(ops) : \A k \in DOMAIN ops[i].Inputs :
        UnpublishedRef(i, k) =>
            /\ NeverCalled(ops[i].Id)
            /\ pc # "done" => result.Err = nil
            /\ pc = "done" => FailedWiring(ops[i].Id)

\* C33 amended: in that case the consuming operation's Check and Set are never
\* invoked and the run fails in the Execute phase: at the consuming operation
\* while its context is wired, with the operations completed before it
\* counted, when the run gets to it; or earlier, in the Set of an operation
\* sorted between the two.
C33_MissingOutputStopsRun ==
    \A i \in 1..Len(ops) : \A k \in DOMAIN ops[i].Inputs :
        UnpublishedRef(i, k) =>
            /\ NeverCalled(ops[i].Id)
            /\ pc # "done" => result.Err = nil
            /\ pc = "done" =>
                  /\ result.Err # nil
                  /\ result.Phase = phaseExecute
                  /\ result.Op # ops[i].Id =>
                        /\ calls[Len(calls)].fn = "Set"
                        /\ calls[Len(calls)].op = result.Op
                        /\ calls[Len(calls)].err = result.Err
                        /\ ops[i].Id \notin {sortedIds[j] : j \in 1..idx}
                  /\ result.Op = ops[i].Id => FailedWiring(ops[i].Id)

\* The run failed wiring the context of the third operation sorted, after the
\* referenced operation and another one completed.
C33_Witness ==
    /\ pc = "done"
    /\ \E i \in 1..Len(ops) :
          /\ UnpublishedRef(i, InputName(0))
          /\ FailedWiring(ops[i].Id)
          /\ NeverCalled(ops[i].Id)
    /\ result.CompletedOperations = 2

-----------------------------------------------------------------------------
(* C34 *)

\* The kind NewInputFromValue detects for a scalar.
DetectedKind(x) ==
    CASE x.t \in {"int", "int64"} -> "signed integer"
      [] x.t = "uint64" -> "unsigned integer"
      [] OTHER -> x.t

\* Auto() has been called on the input.
AutoCalled == Len(probe) = 2 /\ probe[2].fn = "Auto"

\* C34: for every static input created by NewInputFromValue(v), v a string, a
\* bool, a signed integer, an unsigned integer or a float, Auto() returns
\* without error the value v in its originally detected kind; for an input
\* created by NewInputFromDep, Auto() fails with the cannot-determine-type
\* error.
C34_AutoReturnsDetectedValue ==
    AutoCalled =>
        IF probe[1].from.static
        THEN /\ probe[2].got.err = nil
             /\ probe[2].got.val.v = probe[1].from.value.v
             /\ DetectedKind(probe[2].got.val) = DetectedKind(probe[1].from.value)
        ELSE probe[2].got.err = <<"unable to determine type">>

-----------------------------------------------------------------------------
(* C35 *)

\* The error Output returns for a key that is already set.
DuplicateKey(k) == <<"output key already exists", k>>

\* C35: Check and Set of one operation write to the same output map: every
\* key Check published, also when it returned false, is present with its
\* value when Set returns; a test_module Set after a Check that published
\* output_0 gets the duplicate-key error for it and returns it; and a Set that
\* returns an error fails the run in the Execute phase at that operation.
C35_CheckAndSetShareOutputs ==
    \A i \in 1..Len(calls) :
        calls[i].fn = "Set" =>
            /\ i > 1
            /\ calls[i - 1].fn = "Check"
            /\ calls[i - 1].op = calls[i].op
            /\ \A k \in DOMAIN calls[i - 1].out :
                  /\ k \in DOMAIN calls[i].out
                  /\ calls[i].out[k] = calls[i - 1].out[k]
            /\ (/\ operations[calls[i].op].Module = "test_module"
                /\ OutputName(0) \in DOMAIN calls[i - 1].out)
                  => calls[i].err = DuplicateKey(OutputName(0))
            /\ calls[i].err # nil =>
                  /\ pc = "done"
                  /\ result.Err = calls[i].err
                  /\ result.Phase = phaseExecute
                  /\ result.Op = calls[i].op

\* Check returned false after publishing output_0, Set ran into the duplicate
\* key, and the run failed at that operation.
C35_Witness ==
    /\ Len(calls) >= 2
    /\ calls[Len(calls)].fn = "Set"
    /\ ~calls[Len(calls) - 1].ok
    /\ OutputName(0) \in DOMAIN calls[Len(calls) - 1].out
    /\ calls[Len(calls)].err = DuplicateKey(OutputName(0))
    /\ pc = "done"
    /\ result.Phase = phaseExecute
    /\ result.Op = calls[Len(calls)].op

-----------------------------------------------------------------------------
(* C36 *)

\* C36: whenever Run returns a result with Err # nil, result.Op is not nil,
\* so the failure path of the Kubernetes runner, which reads result.Op.Id,
\* never dereferences a nil operation, cycle and sort failures included.
C36_FailedRunReportsOperation ==
    (pc = "done" /\ result.Err # nil) => result.Op # NoOp

-----------------------------------------------------------------------------
(* C37: errors of concurrently run workflows in the aggregate *)

\* The workflows whose runWorkflowInK8s call returned an error.
FailedInK8s == {w \in DOMAIN k8s.g : k8s.g[w].wErr # nil}

\* C37: when runWorkflowsInK8s has returned after running the workflows, the
\* aggregate wfErrors holds exactly one entry for every workflow whose
\* runWorkflowInK8s call returned an error, and nothing else.
C37_EveryWorkflowErrorAggregated ==
    (k8s.pc = "returned" /\ k8s.ns > Len(k8s.cluster.namespaces)) =>
        /\ Len(k8s.wfErrors) = Cardinality(FailedInK8s)
        /\ \A w \in FailedInK8s :
              Cardinality({i \in 1..Len(k8s.wfErrors) :
                              k8s.wfErrors[i] = k8s.g[w].wErr}) = 1

-----------------------------------------------------------------------------
(* C38: every workflow of every namespace is run before the return *)

\* The workflows the namespaces of the configured list hold.
ConfiguredWorkflows ==
    UNION {{k8s.cluster.holds[k8s.cluster.namespaces[n]][i] :
               i \in 1..Len(k8s.cluster.holds[k8s.cluster.namespaces[n]])} :
           n \in 1..Len(k8s.cluster.namespaces)}

\* No namespace of the configured list failed to load.
AllNamespacesLoad ==
    \A n \in 1..Len(k8s.cluster.namespaces) :
        k8s.cluster.namespaces[n] # k8s.cluster.fails

\* C38: when runWorkflowsInK8s has returned and every namespace could be
\* loaded, every workflow of every configured namespace was run exactly once
\* and its status update attempted, its goroutine having ended; also the
\* workflows of earlier namespaces when a later namespace holds none.
C38_EveryWorkflowRunOnceBeforeReturn ==
    (k8s.pc = "returned" /\ AllNamespacesLoad) =>
        \A w \in ConfiguredWorkflows :
            /\ k8s.runs[w] = 1
            /\ k8s.statusUpdates[w] = 1
            /\ w \in DOMAIN k8s.g
            /\ k8s.g[w].pc = "done"

====
